---- MODULE Spec2Model ----
(***************************************************************************)
(* Model of the e2e-test tool: one run of TestExecutor.execute as driven   *)
(* by cli.main, with the UDP discovery loop, the HTTP transport with its   *)
(* retry wrapper, the polling loop and the assertion engine.               *)
(* Time is a discrete wall clock `now`; every blocking call (UDP receive   *)
(* slice, HTTP attempt, sleep) is one step that advances it.               *)
(***************************************************************************)
EXTENDS Integers, Sequences, FiniteSets, TLC

(* ------------------------------------------------------------------ *)
(* Optional values: None is the empty tuple, Some(x) a one-tuple.       *)
(* ------------------------------------------------------------------ *)
None == << >>
Some(x) == << x >>
Val(o) == o[1]

Min(a, b) == IF a <= b THEN a ELSE b

(* ------------------------------------------------------------------ *)
(* Bounds of the model.                                                 *)
(* ------------------------------------------------------------------ *)
\* largest ExecutionConfig.test_timeout tried
MaxTestTimeout == 5
\* largest ExecutionConfig.poll_interval tried
MaxPollInterval == 2
\* largest ExecutionConfig.discovery_timeout tried
MaxDiscoveryTimeout == 2
\* longest time one HTTP attempt takes before it answers or fails
MaxLatency == 1
\* number of datagrams the network delivers during one listen
MaxDatagrams == 2

(* ------------------------------------------------------------------ *)
(* Program constants.                                                   *)
(* ------------------------------------------------------------------ *)
\* RetryPolicy defaults (default_retry_policy)
max_retries == 3
initial_delay == 1
backoff_factor == 2
max_delay == 30
\* sock.settimeout(1.0): the receive slice of the discovery loop
RECV_SLICE == 1
\* GeminiValidator.DEFAULT_CONFIDENCE_THRESHOLD, in hundredths
CONFIDENCE_THRESHOLD == 80

(* ------------------------------------------------------------------ *)
(* RetryPolicy.get_delay                                                *)
(* ------------------------------------------------------------------ *)
RECURSIVE Pow(_, _)
Pow(b, e) == IF e = 0 THEN 1 ELSE b * Pow(b, e - 1)

get_delay(a) == Min(initial_delay * Pow(backoff_factor, a), max_delay)

RetriesLeft_always(a) == TRUE

\* the retry wrapper's test `attempt < self.retry_policy.max_retries`
RetriesLeft(a) == a < max_retries

(* ------------------------------------------------------------------ *)
(* Exceptions: a record [type, msg]; msg is the tuple of the pieces of  *)
(* str(e). Mro gives the classes an exception type is an instance of.   *)
(* ------------------------------------------------------------------ *)
Exc(t, m) == [type |-> t, msg |-> m]

Mro(t) ==
    CASE t = "TimeoutError" -> {"TimeoutError", "OSError", "Exception", "BaseException"}
      [] t = "OSError" -> {"OSError", "Exception", "BaseException"}
      [] t = "requests.ConnectionError" ->
            {"requests.ConnectionError", "requests.RequestException", "OSError",
             "Exception", "BaseException"}
      [] t = "requests.Timeout" ->
            {"requests.Timeout", "requests.RequestException", "OSError",
             "Exception", "BaseException"}
      [] t = "requests.HTTPError" ->
            {"requests.HTTPError", "requests.RequestException", "OSError",
             "Exception", "BaseException"}
      [] t = "requests.ChunkedEncodingError" ->
            {"requests.ChunkedEncodingError", "requests.RequestException", "OSError",
             "Exception", "BaseException"}
      [] t = "RuntimeError" -> {"RuntimeError", "Exception", "BaseException"}
      [] t = "KeyError" -> {"KeyError", "LookupError", "Exception", "BaseException"}
      [] t = "TypeError" -> {"TypeError", "Exception", "BaseException"}
      [] t = "ValueError" -> {"ValueError", "Exception", "BaseException"}
      [] t = "KeyboardInterrupt" -> {"KeyboardInterrupt", "BaseException"}
      [] OTHER -> {"BaseException"}

IsInstance(e, cls) == cls \in Mro(e.type)

\* type(e).__name__
TypeName(t) ==
    CASE t = "requests.ConnectionError" -> "ConnectionError"
      [] t = "requests.Timeout" -> "Timeout"
      [] t = "requests.HTTPError" -> "HTTPError"
      [] OTHER -> t

\* the except clauses of TestExecutor.execute, tried in order: the text
\* stored in ExecutionResult.error
ErrorMessage(e) ==
    IF IsInstance(e, "TimeoutError") THEN << "Timeout: " >> \o e.msg
    ELSE IF IsInstance(e, "ConnectionError") THEN << "Connection failed: " >> \o e.msg
    ELSE IF IsInstance(e, "RuntimeError") THEN e.msg
    ELSE << "Unexpected error: ", TypeName(e.type), ": " >> \o e.msg

CaughtByExecute_all(e) == TRUE

\* execute's handlers catch Exception, not BaseException
CaughtByExecute(e) == IsInstance(e, "Exception")

(* ------------------------------------------------------------------ *)
(* Names are tuples of characters, so that Python's `a in b` on strings *)
(* is a computed substring test. IntName stands for a JSON name that is *)
(* a number instead of a string.                                        *)
(* ------------------------------------------------------------------ *)
IntName == << "<int>" >>
IsStr(n) == n # IntName

\* Python's `a in b` for two strings
IsSubstr(a, b) ==
    \E i \in 0..(Len(b) - Len(a)) : SubSeq(b, i + 1, i + Len(a)) = a

(* ------------------------------------------------------------------ *)
(* executor.py, step 6: the dict {ss.name: ss.data for ss in ...}, kept *)
(* as the tuple of its items in insertion order (a repeated key keeps   *)
(* its first position and takes the last value).                        *)
(* ------------------------------------------------------------------ *)
DictPut(d, k, v) ==
    IF \E i \in DOMAIN d : d[i].name = k
    THEN [i \in DOMAIN d |-> IF d[i].name = k THEN [name |-> k, data |-> v] ELSE d[i]]
    ELSE Append(d, [name |-> k, data |-> v])

RECURSIVE screenshots_dict(_)
screenshots_dict(ss) ==
    IF ss = << >> THEN << >>
    ELSE LET n == Len(ss)
         IN DictPut(screenshots_dict(SubSeq(ss, 1, n - 1)), ss[n].name, ss[n].data)

\* a screenshot whose "data" is JSON null
NullData == "<null>"

\* dict.get(key): Some(data) or None
DictGet(d, k) ==
    IF \E i \in DOMAIN d : d[i].name = k
    THEN Some(d[CHOOSE i \in DOMAIN d : d[i].name = k].data)
    ELSE None

(* ------------------------------------------------------------------ *)
(* GeminiValidator.validate_screenshot: the model's raw answer is       *)
(* [pass, confidence, reason], or "error" when anything in the call     *)
(* raised; the result carries a warning below the threshold.            *)
(* ------------------------------------------------------------------ *)
LowConfidence_inclusive(c) == c <= CONFIDENCE_THRESHOLD

LowConfidence(c) == c < CONFIDENCE_THRESHOLD

validate_screenshot_trusting(raw) ==
    [passed |-> IF raw.error THEN TRUE ELSE raw.pass,
     confidence |-> IF raw.error THEN 0 ELSE raw.confidence,
     reason |-> IF raw.error THEN "VLM validation error" ELSE raw.reason,
     warning |-> None]

validate_screenshot(raw) ==
    IF raw.error
    THEN [passed |-> FALSE, confidence |-> 0, reason |-> "VLM validation error",
          warning |-> None]
    ELSE [passed |-> raw.pass, confidence |-> raw.confidence, reason |-> raw.reason,
          warning |-> IF LowConfidence(raw.confidence)
                      THEN Some("Low confidence") ELSE None]

(* ------------------------------------------------------------------ *)
(* AssertionEngine                                                      *)
(* ------------------------------------------------------------------ *)
Details(t, a) == [text |-> t, arg |-> a]

\* the partial-match loop of _evaluate_screenshot over the dict's items
\* from position i on: "found" with the data, "none", or "raise" when
\* `assertion.name in name` meets a name that is no string
RECURSIVE PartialMatch(_, _, _)
PartialMatch(name, d, i) ==
    IF i > Len(d) THEN [kind |-> "none", data |-> ""]
    ELSE IF ~IsStr(d[i].name) THEN [kind |-> "raise", data |-> ""]
    ELSE IF IsSubstr(name, d[i].name)
    THEN IF d[i].data = NullData
         THEN [kind |-> "none", data |-> ""]
         ELSE [kind |-> "found", data |-> d[i].data]
    ELSE PartialMatch(name, d, i + 1)

\* the screenshot an assertion is matched to: exact name first, then
\* the partial match when the dict has no such key or None under it
FindScreenshot(name, d) ==
    IF DictGet(d, name) # None /\ DictGet(d, name) # Some(NullData)
    THEN [kind |-> "found", data |-> Val(DictGet(d, name))]
    ELSE PartialMatch(name, d, 1)

\* description or name
Expected(assertion) ==
    IF assertion.description # None /\ Val(assertion.description) # << >>
    THEN Val(assertion.description)
    ELSE assertion.name

\* the call validate_screenshot(screenshot_data, expected), when the
\* assertion gets that far
OracleCall(assertion, d, validator) ==
    LET m == FindScreenshot(assertion.name, d)
    IN IF assertion.type = "screenshot" /\ m.kind = "found" /\ validator
       THEN Some([image |-> m.data, expected |-> Expected(assertion)])
       ELSE None

_evaluate_screenshot(assertion, d, validator, raw) ==
    LET m == FindScreenshot(assertion.name, d)
    IN  IF m.kind = "none"
        THEN [assertion |-> assertion, passed |-> FALSE,
              details |-> Details("Screenshot not found in results.", assertion.name),
              vlm_result |-> None]
        ELSE IF ~validator
        THEN [assertion |-> assertion, passed |-> FALSE,
              details |-> Details("No VLM validator configured. Cannot validate screenshots.", << >>),
              vlm_result |-> None]
        ELSE LET v == validate_screenshot(raw)
             IN [assertion |-> assertion, passed |-> v.passed,
                 details |-> Details(v.reason, << >>),
                 vlm_result |-> Some(v)]

\* the result of one declared assertion (evaluate's loop body)
EvaluateOne(assertion, d, validator, raw) ==
    IF assertion.type = "screenshot"
    THEN _evaluate_screenshot(assertion, d, validator, raw)
    ELSE [assertion |-> assertion, passed |-> FALSE,
          details |-> Details("Unsupported assertion type: ", << assertion.type >>),
          vlm_result |-> None]

\* whether evaluating this assertion raises (TypeError in the partial match)
EvaluateRaises(assertion, d) ==
    /\ assertion.type = "screenshot"
    /\ FindScreenshot(assertion.name, d).kind = "raise"

evaluate_screenshots(assertions, d, validator, raws) ==
    IF \E i \in DOMAIN assertions : EvaluateRaises(assertions[i], d)
    THEN [raised |-> TRUE, results |-> << >>]
    ELSE LET shots == SelectSeq(assertions, LAMBDA a : a.type = "screenshot")
         IN [raised |-> FALSE,
             results |-> [i \in DOMAIN shots |->
                             EvaluateOne(shots[i], d, validator, raws[i])]]

\* AssertionEngine.evaluate: raws[i] is the oracle's raw answer for the
\* i-th assertion, used only if the oracle is called for it
evaluate(assertions, d, validator, raws) ==
    IF \E i \in DOMAIN assertions : EvaluateRaises(assertions[i], d)
    THEN [raised |-> TRUE, results |-> << >>]
    ELSE [raised |-> FALSE,
          results |-> [i \in DOMAIN assertions |->
                          EvaluateOne(assertions[i], d, validator, raws[i])]]

all_passed_any(results) == \E i \in DOMAIN results : results[i].passed

\* AssertionReport.all_passed and the counts
all_passed(results) == \A i \in DOMAIN results : results[i].passed
passed_count(results) == Cardinality({i \in DOMAIN results : results[i].passed})
failed_count_total(results) == Len(results)
failed_count(results) == Cardinality({i \in DOMAIN results : ~results[i].passed})
total_count(results) == Len(results)

(* ------------------------------------------------------------------ *)
(* JsonReporter.generate / generate_flow_output: the report's status    *)
(* and the "success" of the flow output, from the assertion report      *)
(* (None stands for the empty AssertionReport() that to_flow_json       *)
(* substitutes) and the error.                                          *)
(* ------------------------------------------------------------------ *)
ReportResults(assertion_report) ==
    IF assertion_report = None THEN << >> ELSE Val(assertion_report)

ReportPassed_resultsonly(assertion_report, error) ==
    all_passed(ReportResults(assertion_report))

ReportPassed(assertion_report, error) ==
    IF ReportResults(assertion_report) # << >>
    THEN all_passed(ReportResults(assertion_report))
    ELSE error = None

FlowSuccess(assertion_report, error) == ReportPassed(assertion_report, error)

\* Python's truth value of report.get("error"): a text that is not empty
ErrorText(error) == error # None /\ \E i \in DOMAIN Val(error) : Val(error)[i] # ""

\* generate_flow_output: the "message" of the flow output
FlowMessage(assertion_report, error) ==
    IF FlowSuccess(assertion_report, error) THEN << "All tests passed" >>
    ELSE IF ErrorText(error) THEN << "Test failed: " >> \o Val(error)
    ELSE << ToString(failed_count(ReportResults(assertion_report))), " of ",
            ToString(total_count(ReportResults(assertion_report))),
            " assertions failed" >>

\* the flow JSON that main prints, reduced to "success" and "message"
FlowOutput(assertion_report, error) ==
    [success |-> FlowSuccess(assertion_report, error),
     message |-> FlowMessage(assertion_report, error)]

\* cli.output_error: the flow JSON of an error
output_error(message) == [success |-> FALSE, message |-> message]

(* ------------------------------------------------------------------ *)
(* UDPListener._parse_broadcast: a datagram is [kind, app, port,        *)
(* platform, version]; kind says whether the bytes decode to a JSON     *)
(* object; port is a JSON value [t, v] with its type.                   *)
(* ------------------------------------------------------------------ *)
JsonInt(v) == [t |-> "int", v |-> v]
JsonStr(v) == [t |-> "str", v |-> v]
JsonMissing == [t |-> "missing", v |-> 0]

\* isinstance(port, int)
IsInt(j) == j.t \in {"int", "bool"}

\* `not app`: a missing, null or empty app
AppFalsy(app) == app = None \/ Val(app) = << >>

_parse_broadcast_payloadhost(dg, host) ==
    IF dg.kind # "object" THEN None
    ELSE IF AppFalsy(dg.app) \/ ~IsInt(dg.port) THEN None
    ELSE Some([app |-> Val(dg.app),
               host |-> IF "host" \in DOMAIN dg THEN dg.host ELSE host,
               port |-> dg.port.v,
               platform |-> dg.platform, version |-> dg.version])

_parse_broadcast(dg, host) ==
    IF dg.kind # "object" THEN None
    ELSE IF AppFalsy(dg.app) \/ ~IsInt(dg.port) THEN None
    ELSE Some([app |-> Val(dg.app), host |-> host, port |-> dg.port.v,
               platform |-> dg.platform, version |-> dg.version])

\* the filters of listen: `if f and info.x != f: continue`
FilterRejects(filter, value) == filter # None /\ value # filter

ListenAccepts(info, app_filter, platform_filter) ==
    /\ ~FilterRejects(app_filter, Some(info.app))
    /\ ~FilterRejects(platform_filter, info.platform)

(* ------------------------------------------------------------------ *)
(* Inputs.                                                              *)
(* ------------------------------------------------------------------ *)
Dg(kind, app, port, platform) ==
    [kind |-> kind, app |-> app, port |-> port, platform |-> platform,
     version |-> None]

Datagrams ==
    { Dg("garbage", None, JsonMissing, None),
      Dg("object", None, JsonInt(51321), Some("unity")),
      Dg("object", Some(<< "a" >>), JsonStr(0), Some("unity")),
      Dg("object", Some(<< "a" >>), JsonInt(51321), Some("unity")),
      Dg("object", Some(<< "a" >>), JsonInt(51321), Some("flutter")),
      Dg("object", Some(<< "a" >>), JsonInt(51321), None) }

Hosts == { "10.0.0.7" }

PresetAppInfo ==
    [app |-> << "a" >>, host |-> "10.0.0.9", port |-> 51321,
     platform |-> Some("unity"), version |-> None]

Assertion(t, n, desc) == [type |-> t, name |-> n, description |-> desc]

AssertionLists ==
    { << >>,
      << Assertion("screenshot", << "h" >>, None) >>,
      << Assertion("text", << "h" >>, None) >>,
      << Assertion("screenshot", << "h" >>, Some(<< "d" >>)),
         Assertion("screenshot", << "l" >>, None) >> }

Shot(n, d) == [name |-> n, data |-> d]

ScreenshotLists ==
    { << >>,
      << Shot(<< "h", "s" >>, "d1") >>,
      << Shot(<< "h", "s" >>, "d1"), Shot(<< "l" >>, "d2") >>,
      << Shot(IntName, "d1") >> }

\* raw JSON log entries: a missing field is None
RawLog(ts, lv, m) == [timestamp |-> ts, level |-> lv, message |-> m]

RawLogLists == { << >>, << RawLog(Some("t1"), None, Some("boot")) >> }

\* get_result: LogEntry with the defaults of log.get(...)
LogEntry(raw) ==
    [timestamp |-> IF raw.timestamp = None THEN "" ELSE Val(raw.timestamp),
     level |-> IF raw.level = None THEN "info" ELSE Val(raw.level),
     message |-> IF raw.message = None THEN "" ELSE Val(raw.message)]

SessionIds == { "s1", "s2" }
StatusValues == { "queued", "running", "completed", "failed", "paused" }
TerminalStatus(st) == st \in { "completed", "failed" }
ErrorTexts == { None, Some(""), Some("boom") }

\* the raw answers of the vision model
RawAnswer(err, pass, conf) ==
    [error |-> err, pass |-> pass, confidence |-> conf, reason |-> "r"]

RawAnswers ==
    { RawAnswer(TRUE, FALSE, 0), RawAnswer(FALSE, TRUE, 95),
      RawAnswer(FALSE, TRUE, 40), RawAnswer(FALSE, FALSE, 95) }

\* what one HTTP attempt can end in
HttpOutcomes == { "2xx", "3xx", "4xx", "5xx", "conn", "timeout" }
Retryable == { "5xx", "conn", "timeout" }

\* the exception an attempt's failure raises: raise_for_status for a
\* status code, the requests exception otherwise
AttemptError(outcome) ==
    CASE outcome = "conn" -> Exc("requests.ConnectionError", << "conn" >>)
      [] outcome = "timeout" -> Exc("requests.Timeout", << "timeout" >>)
      [] OTHER -> Exc("requests.HTTPError", << outcome >>)

\* TestStatus.is_completed / is_failed
is_completed(st) == st = "completed"
is_failed(st) == st = "failed"

\* poll_until_complete: the loop test `time.time() - start_time < timeout`
PollWithinBudget(t, start, timeout) == t - start < timeout

\* listen: the loop test
ListenWithinBudget(t, start, timeout) == t - start < timeout

\* `result.error or 'Unknown error'`
ErrorOrUnknown(err) ==
    IF err = None \/ Val(err) = "" THEN "Unknown error" ELSE Val(err)

UsePreset_never(info) == FALSE

\* _discover_app: `if self.app_info:`
UsePreset(info) == info # None

(* the worst time one call of _request_with_retry can take, and a clock  *)
(* value no run exceeds                                                  *)
RECURSIVE SumDelays(_)
SumDelays(k) == IF k = 0 THEN 0 ELSE get_delay(k - 1) + SumDelays(k - 1)

WorstRequest == (max_retries + 1) * MaxLatency + SumDelays(max_retries)

MaxClock ==
    MaxDiscoveryTimeout + RECV_SLICE + 3 * WorstRequest
        + MaxTestTimeout + MaxPollInterval

(* ------------------------------------------------------------------ *)
(* RetryPolicy with any field values. Delays are floats in the code;    *)
(* here they are exact fractions << n, d >> with d > 0, in lowest terms.*)
(* ------------------------------------------------------------------ *)
Abs(n) == IF n < 0 THEN -n ELSE n

RECURSIVE Gcd(_, _)
Gcd(a, b) == IF b = 0 THEN a ELSE Gcd(b, a % b)

Frac(n, d) == LET g == Gcd(Abs(n), d) IN << n \div g, d \div g >>
RMul(x, y) == Frac(x[1] * y[1], x[2] * y[2])
RLe(x, y) == x[1] * y[2] <= y[1] * x[2]
RMin(x, y) == IF RLe(x, y) THEN x ELSE y

RECURSIVE RPow(_, _)
RPow(x, k) == IF k = 0 THEN Frac(1, 1) ELSE RMul(x, RPow(x, k - 1))

\* the dataclass RetryPolicy: the fields are stored as given
RetryPolicy(retries, initial, factor, cap) ==
    [max_retries |-> retries, initial_delay |-> initial,
     backoff_factor |-> factor, max_delay |-> cap]

default_retry_policy ==
    RetryPolicy(max_retries, Frac(initial_delay, 1), Frac(backoff_factor, 1),
                Frac(max_delay, 1))

aggressive_retry_policy == RetryPolicy(5, Frac(1, 2), Frac(3, 2), Frac(10, 1))

no_retry_policy == [default_retry_policy EXCEPT !.max_retries = 0]

MaxPolicyRetries == 2

\* the policies a client is built with: the three presets, and policies
\* with fields of the caller's choice (a factor below 1 among them)
Policies ==
    { default_retry_policy, aggressive_retry_policy, no_retry_policy }
    \cup { RetryPolicy(m, i, f, c) :
               m \in 0..MaxPolicyRetries,
               i \in { Frac(1, 2), Frac(1, 1) },
               f \in { Frac(1, 2), Frac(1, 1), Frac(2, 1) },
               c \in { Frac(1, 1), Frac(3, 1) } }

RetryPolicy_get_delay_uncapped(p, a) ==
    RMul(p.initial_delay, RPow(p.backoff_factor, a))

\* RetryPolicy.get_delay
RetryPolicy_get_delay(p, a) ==
    RMin(RMul(p.initial_delay, RPow(p.backoff_factor, a)), p.max_delay)

HasRetriesLeft_inclusive(p, a) == a <= p.max_retries

\* `attempt < self.retry_policy.max_retries`
HasRetriesLeft(p, a) == a < p.max_retries

Surfaced_first(failures) == failures[1]

\* what leaves the wrapper when no retry remains: the bare `raise`, or
\* raise_for_status on this attempt's response, raise the failure of the
\* attempt that just ended
Surfaced(failures) == failures[Len(failures)]

\* whether the AUT may have acted on a request whose attempt ended in
\* outcome: a 2xx answer says it did, a refusal (3xx, 4xx) that it did
\* not; a 5xx answer, a broken connection or a timeout leave it open
AcceptedBy(outcome) ==
    CASE outcome = "2xx" -> { TRUE }
      [] outcome \in Retryable -> { FALSE, TRUE }
      [] OTHER -> { FALSE }

\* one call of _request_with_retry: policy and url, the loop's position,
\* and a record of what happened (the outcome of each attempt, each
\* sleep, what was returned or raised, and how many sessions the
\* requests started on the AUT)
Request(p, u) ==
    [policy |-> p, url |-> u, attempt |-> 0, phase |-> "try",
     outcomes |-> << >>, failures |-> << >>, sleeps |-> << >>,
     response |-> None, raised |-> None, started |-> 0, fell_through |-> FALSE]

\* the ends of an attempt of the wrapper: those of HttpOutcomes, and a
\* response whose status code is 600 or more, which raise_for_status lets
\* pass (it raises for 400..599)
WrapperOutcomes == HttpOutcomes \cup { "6xx" }

\* the responses with a status code below 500
Sub500 == { "2xx", "3xx", "4xx" }

\* last_error when the loop is left: the latest requests.ConnectionError
\* or requests.Timeout the except clauses stored, if any
LastStored(failures) ==
    LET stored == { i \in DOMAIN failures :
                      failures[i].error.type \in { "requests.ConnectionError",
                                                   "requests.Timeout" } }
    IN IF stored = { } THEN None
       ELSE Some(failures[CHOOSE i \in stored : \A j \in stored : j <= i])

\* the statements after the loop: `if last_error: raise last_error`, then
\* raise RuntimeError
AfterRetryLoop(failures, a) ==
    IF LastStored(failures) # None THEN Val(LastStored(failures))
    ELSE [error |-> Exc("RuntimeError", << "Request failed with no error captured" >>),
          attempt |-> a]

NoRequest == [phase |-> "none"]

MaxAttemptArg == 4

\* the policies get_delay can be asked of: the dataclass checks no field,
\* a negative initial delay is stored like any other
AnyPolicies ==
    Policies
    \cup { RetryPolicy(m, Frac(0 - 1, 1), f, Frac(3, 1)) :
               m \in 0..MaxPolicyRetries, f \in { Frac(1, 1), Frac(2, 1) } }

\* get_delay asked of one policy for attempt 0, 1, ...: the answers so far
Schedule(p) == [policy |-> p, delays |-> << >>]

NoSchedule == [policy |-> default_retry_policy, delays |-> << >>]

(* ------------------------------------------------------------------ *)
(* TimeoutHandler: a timeout (the budget), a RetryConfig, and the       *)
(* locals of execute_with_retry. Times are whole seconds; now is what   *)
(* time.time() returns.                                                 *)
(* ------------------------------------------------------------------ *)
MaxBudget == 5
MaxOpTime == 2

\* the dataclass RetryConfig
RetryConfig(retries, initial, factor, cap) ==
    [max_retries |-> retries, initial_delay |-> initial,
     backoff_factor |-> factor, max_delay |-> cap]

\* the default RetryConfig(), one with a single retry, and one whose
\* initial delay is above its max_delay (the dataclass checks no field)
RetryConfigs ==
    { RetryConfig(3, 1, 2, 30), RetryConfig(1, 2, 1, 2), RetryConfig(2, 3, 2, 2) }

\* TimeoutHandler.__init__, with the locals of execute_with_retry and
\* the record of the sleeps taken
TimeoutHandler(timeout, retry_config) ==
    [timeout |-> timeout, retry_config |-> retry_config, _start_time |-> None,
     now |-> 0, phase |-> "start", attempt |-> 0, delay |-> 0,
     last_error |-> None, raised |-> None, sleeps |-> << >>,
     ran |-> << >>, result |-> None, on_retry |-> FALSE, retries |-> << >>]

\* the first argument of on_retry, counted from the attempt that failed
RetryNumber_zero_based(attempt) == attempt

\* on_retry(attempt + 1, e)
RetryNumber(attempt) == attempt + 1

\* `if on_retry: on_retry(attempt + 1, e)` with a callback that keeps its
\* arguments, and the number of sleeps taken so far
OnRetry(h, e) ==
    IF h.on_retry
    THEN Append(h.retries, [number |-> RetryNumber(h.attempt), error |-> e,
                            sleeps |-> Len(h.sleeps)])
    ELSE h.retries

\* what the operation raises, and what it returns, when called in
\* iteration k of the loop
OperationError(k) == Exc("Exception", << "operation", ToString(k) >>)
OperationValue(k) == << "value", ToString(k) >>

AfterLoop_generic(last_error) ==
    Exc("TimeoutError", << "Operation timed out" >>)

\* after the loop: `if last_error: raise last_error`, else TimeoutError
AfterLoop(last_error) ==
    IF last_error # None THEN Val(last_error)
    ELSE Exc("TimeoutError", << "Operation timed out" >>)

NoHandler == [phase |-> "none"]

\* the properties elapsed, remaining and is_expired
elapsed(h) == IF h._start_time = None THEN 0 ELSE h.now - Val(h._start_time)
remaining(h) == IF h.timeout - elapsed(h) < 0 THEN 0 ELSE h.timeout - elapsed(h)
is_expired(h) == elapsed(h) >= h.timeout

(* ------------------------------------------------------------------ *)
(* State.                                                               *)
(* ------------------------------------------------------------------ *)
(* ------------------------------------------------------------------ *)
(* UDPListener.listen and listen_all on their own: the parameters and   *)
(* locals of one call, and the datagrams recvfrom has returned so far   *)
(* (arrivals, each with the sender address addr[0]).                    *)
(* ------------------------------------------------------------------ *)
MaxArrivals == 3
MaxListenTimeout == 2

\* a payload that also carries a "host" member
Claiming(dg, host) == dg @@ [host |-> host]

\* what recvfrom can return: (data, addr[0])
Arrivals ==
    { [dg |-> dg, host |-> "10.0.0.7"] :
         dg \in Datagrams \cup
                { Dg("deep", None, JsonMissing, None),
                  Dg("array", None, JsonMissing, None),
                  Dg("object", Some(<< "a" >>), JsonInt(0), Some("unity")),
                  Dg("object", Some(<< "b" >>), JsonInt(51322), Some("unity")),
                  Claiming(Dg("object", Some(<< "a" >>), JsonInt(51323), Some("unity")),
                           "10.0.0.66") } }
    \cup { [dg |-> Dg("object", Some(<< "a" >>), JsonInt(51321), Some("flutter")),
            host |-> "10.0.0.8"] }

\* json.loads(data.decode("utf-8")) on nesting deeper than the decoder's
\* recursion limit raises RecursionError, which is neither of the two
\* exceptions _parse_broadcast catches; whether 4096 bytes can nest that
\* deep depends on the interpreter, so both outcomes are possible
ParseRaises(dg) == IF dg.kind = "deep" THEN BOOLEAN ELSE { FALSE }

\* key = f"{app_info.host}:{app_info.port}"
Key(info) == << info.host, info.port >>

Discover_last(discovered, info) ==
    IF \E i \in 1..Len(discovered) : Key(discovered[i]) = Key(info)
    THEN [i \in 1..Len(discovered) |->
             IF Key(discovered[i]) = Key(info) THEN info ELSE discovered[i]]
    ELSE Append(discovered, info)

\* `if key not in discovered: discovered[key] = app_info`; the dict keeps
\* insertion order
Discover(discovered, info) ==
    IF \E i \in 1..Len(discovered) : Key(discovered[i]) = Key(info)
    THEN discovered
    ELSE Append(discovered, info)

Listen(mode, timeout, app_filter, platform_filter) ==
    [mode |-> mode, timeout |-> timeout, app_filter |-> app_filter,
     platform_filter |-> platform_filter, start_time |-> 0, now |-> 0,
     _sock |-> "none", unbound |-> "none", phase |-> "create",
     arrivals |-> << >>, discovered |-> << >>, result |-> None, raised |-> None]

NoListen == [phase |-> "none"]

(* ------------------------------------------------------------------ *)
(* The assertion stage on its own: the screenshots of a TestResult in   *)
(* capture order, the dict execute builds from them, and evaluate on    *)
(* the declared assertions; calls[i] is the oracle call made for the    *)
(* i-th assertion, if any.                                              *)
(* ------------------------------------------------------------------ *)
EvalAssertionLists ==
    AssertionLists \cup
    { << Assertion("text", << "h" >>, None),
         Assertion("screenshot", << "h" >>, Some(<< >>)) >>,
      << Assertion("screenshot", << "h" >>, None),
         Assertion("screenshot", << "h" >>, Some(<< "d" >>)) >> }

Captures ==
    ScreenshotLists \cup
    { << Shot(<< "h", "s" >>, "d1"), Shot(<< "h" >>, "d2") >>,
      << Shot(<< "h", "a" >>, "d1"), Shot(<< "h", "b" >>, "d2"),
         Shot(<< "h", "a" >>, "d3") >>,
      << Shot(<< "x", "h" >>, "d1"), Shot(<< "h" >>, NullData) >>,
      << Shot(<< "h", "s" >>, "d1"), Shot(IntName, "d2") >> }

EvalRawAnswers ==
    RawAnswers \cup { RawAnswer(FALSE, TRUE, CONFIDENCE_THRESHOLD),
                      RawAnswer(FALSE, FALSE, 40) }

Evaluation(assertions, captured, validator, raws) ==
    [phase |-> "collected", assertions |-> assertions, captured |-> captured,
     gemini_validator |-> validator, raws |-> raws, screenshots_dict |-> << >>,
     report |-> None, calls |-> << >>, raised |-> None, summary |-> None]

NoEvaluation == [phase |-> "none"]

(* ------------------------------------------------------------------ *)
(* E2EHttpClient.health_check on its own: self._session.get(...) ends   *)
(* with a response or with an exception of requests; "broken" is a      *)
(* response whose body is cut off by the peer, which requests raises as *)
(* ChunkedEncodingError while it reads the content.                     *)
(* ------------------------------------------------------------------ *)
MaxHealthChecks == 3

StatusCodes == { 200, 204, 404, 499, 500, 503 }

GetFailures == { "conn", "timeout", "broken" }

\* the exception session.get raises for a failure
GetError(failure) ==
    CASE failure = "conn" -> Exc("requests.ConnectionError", << "conn" >>)
      [] failure = "timeout" -> Exc("requests.Timeout", << "timeout" >>)
      [] OTHER -> Exc("requests.ChunkedEncodingError", << "broken" >>)

Healthy_any(status_code) == TRUE

\* return response.status_code < 500
Healthy(status_code) == status_code < 500

\* except (requests.ConnectionError, requests.Timeout)
CaughtByHealthCheck(e) ==
    IsInstance(e, "requests.ConnectionError") \/ IsInstance(e, "requests.Timeout")

\* one finished call: what the get ended in, and what the call returned
\* or raised
HealthCall(ended, returned, raised) ==
    [ended |-> ended, returned |-> returned, raised |-> raised]

NoHealth == << >>

(* ------------------------------------------------------------------ *)
(* poll_until_complete on its own, run twice against the same server    *)
(* answers: `plain` without on_progress, `hooked` with the callback of  *)
(* the call. A status answer carries the status and the total_steps     *)
(* member as the JSON value the server sent.                            *)
(* ------------------------------------------------------------------ *)
StatusAnswer(st, total) == [status |-> st, total_steps |-> total]

StatusAnswers ==
    { StatusAnswer(st, total) :
         st \in { "running", "completed", "failed" },
         total \in { JsonInt(0), JsonInt(3), JsonStr(3) } }

\* the callbacks a caller can pass: none, TestExecutor._on_progress, one
\* that only records, one that raises
Callbacks == { "none", "_on_progress", "records", "raises" }

\* what a call of the callback ends in: None, or the exception it raises.
\* _on_progress evaluates `status.total_steps > 0`, a TypeError when the
\* server sent total_steps as a string
OnProgress(callback, answer) ==
    CASE callback = "raises" -> Some(Exc("ValueError", << "callback" >>))
      [] callback = "_on_progress" ->
            IF answer.total_steps.t = "str"
            THEN Some(Exc("TypeError", << "'>' not supported" >>))
            ELSE None
      [] OTHER -> None

PollRun(timeout, poll_interval) ==
    [timeout |-> timeout, poll_interval |-> poll_interval, start_time |-> 0,
     now |-> 0, phase |-> "loop", requests |-> << >>, invoked |-> 0,
     outcome |-> None]

\* one pass through the loop of poll_until_complete for the answer the
\* server gives to get_status
PollIteration(run, callback, answer) ==
    IF run.phase # "loop" THEN run
    ELSE IF ~PollWithinBudget(run.now, run.start_time, run.timeout)
    THEN [run EXCEPT !.phase = "raised",
                     !.outcome = Some(Exc("TimeoutError", << "Test did not complete" >>))]
    ELSE LET r == [run EXCEPT !.requests = Append(@, "status"),
                              !.invoked = IF callback = "none" THEN @ ELSE @ + 1]
         IN IF callback # "none" /\ OnProgress(callback, answer) # None
            THEN [r EXCEPT !.phase = "raised",
                           !.outcome = OnProgress(callback, answer)]
            ELSE IF is_completed(answer.status)
            THEN [r EXCEPT !.requests = Append(@, "result"), !.phase = "returned",
                           !.outcome = Some("result")]
            ELSE IF is_failed(answer.status)
            THEN [r EXCEPT !.requests = Append(@, "result"), !.phase = "raised",
                           !.outcome = Some(Exc("RuntimeError", << "Test failed: " >>))]
            ELSE [r EXCEPT !.now = @ + run.poll_interval]

NoPoll == [callback |-> "none"]

VARIABLES
    pl,          \* poll_until_complete run with and without on_progress, side by side
    hc,          \* the calls of E2EHttpClient.health_check made so far, on their own
    ev,          \* AssertionEngine.evaluate on the artifacts of a result, on its own
    ls,          \* a call of UDPListener.listen or listen_all followed on its own
    th,          \* a TimeoutHandler and its execute_with_retry call
    rw,          \* a call of _request_with_retry followed on its own
    schedule,    \* a policy and the delays get_delay returned for it
    pc,          \* position of the run: see Positions
    now,         \* the wall clock, time.time()
    self,        \* TestExecutor's fields: scenario, config, gemini_validator, app_info
    latency,     \* the time one HTTP attempt takes in this run: none, or MaxLatency
    start_time,  \* execute's start_time
    result,      \* execute's ExecutionResult
    app_info,    \* execute's local app_info (None before discovery returns)
    sock,        \* UDPListener._sock: "none", "open", "closed"
    listen_start,\* listen's start_time
    n_dgram,     \* datagrams received by listen so far
    conn,        \* E2EHttpClient._session: "none", "open", "closed"
    attempt,     \* _request_with_retry's loop variable
    phase,       \* inside _request_with_retry: "try", "sleep"; "idle" outside
    url,         \* _request_with_retry's url (what the request asks for), or None
    session,     \* execute's local session (None before post_run returns)
    poll_start,  \* poll_until_complete's start_time
    status,      \* poll_until_complete's local status (last fetched), or None
    session_id,  \* poll_until_complete's parameter session_id, or None
    fetched,     \* the TestResult the last get_result returned, or None
    http_result, \* execute's local http_result, or None
    exc,         \* the exception that ended execute, or None
    exit_code,   \* the exit status of main, or None
    output,      \* the flow JSON main printed: [success, message], or None
    calls        \* how often each operation was called in this run

\* the inputs of a run, never changed
inputs == << self, latency, start_time, rw, schedule, th, ls, ev, hc, pl >>
\* the locals of UDPListener.listen
listenVars == << sock, listen_start, n_dgram >>
\* the locals of _request_with_retry
retryVars == << attempt, phase, url >>
\* the locals of poll_until_complete
pollVars == << poll_start, status, session_id >>
\* what execute holds and returns
execVars == << result, app_info, session, http_result, exc >>

vars == << pc, now, inputs, listenVars, conn, retryVars, pollVars, fetched,
           execVars, exit_code, output, calls >>

Positions ==
    { "init", "discover", "listen", "submit", "poll_check", "poll_status",
      "poll_sleep", "poll_result", "collect", "assert", "done", "exited" }

NoCalls ==
    [listen |-> 0, post_run |-> 0, get_status |-> 0, get_result |-> 0,
     poll_sleep |-> 0, evaluate |-> 0]

Called(op) == [calls EXCEPT ![op] = @ + 1]

Configs ==
    [discovery_timeout : { MaxDiscoveryTimeout },
     test_timeout : { 0, MaxTestTimeout },
     poll_interval : { MaxPollInterval }]

Scenarios == [app : { << "a" >> }, platform : { "unity" }, assertions : AssertionLists]

NoResult ==
    [scenario_name |-> << >>, platform |-> "", all_passed |-> FALSE,
     assertion_report |-> None, duration_ms |-> 0, logs |-> << >>,
     error |-> None]

MainInit ==
    /\ pc = "init"
    /\ now = 0
    /\ self \in [scenario : Scenarios, config : Configs,
                 gemini_validator : BOOLEAN,
                 app_info : { None, Some(PresetAppInfo) }]
    /\ latency \in { 0, MaxLatency }
    /\ start_time = 0
    /\ result = NoResult
    /\ app_info = None
    /\ sock = "none"
    /\ listen_start = 0
    /\ n_dgram = 0
    /\ conn = "none"
    /\ attempt = 0
    /\ phase = "idle"
    /\ session = None
    /\ poll_start = 0
    /\ status = None
    /\ fetched = None
    /\ http_result = None
    /\ exc = None
    /\ exit_code = None
    /\ output = None
    /\ url = None
    /\ session_id = None
    /\ calls = NoCalls

\* a run of main; no call is followed on its own
Init ==
    /\ MainInit
    /\ rw = NoRequest
    /\ schedule = NoSchedule
    /\ th = NoHandler
    /\ ls = NoListen
    /\ ev = NoEvaluation
    /\ hc = NoHealth
    /\ pl = NoPoll

(* ------------------------------------------------------------------ *)
(* How calls return. The locals of a call that has returned or raised   *)
(* no longer exist: they are put back to their initial values.          *)
(* ------------------------------------------------------------------ *)
Closed_noop(c) == c

\* E2EHttpClient.__exit__ / close, and UDPListener.close in listen's finally
Closed(c) == IF c = "open" THEN "closed" ELSE c

\* listen returns or raises: its finally block closes the socket
LeaveListen ==
    /\ sock' = Closed(sock)
    /\ listen_start' = 0
    /\ n_dgram' = 0

\* _request_with_retry returns or raises
LeaveRetry ==
    /\ attempt' = 0
    /\ phase' = "idle"
    /\ url' = None

\* poll_until_complete returns or raises
LeavePoll ==
    /\ poll_start' = 0
    /\ status' = None
    /\ session_id' = None

\* finally: result.duration_ms = int((time.time() - start_time) * 1000)
Duration(t) == (t - start_time) * 1000

Failed_fresh(res, e, t) ==
    [scenario_name |-> res.scenario_name, platform |-> res.platform,
     all_passed |-> FALSE, assertion_report |-> None,
     duration_ms |-> Duration(t), logs |-> << >>,
     error |-> Some(ErrorMessage(e))]

Failed_noerror(res, e, t) == [res EXCEPT !.duration_ms = Duration(t)]

\* the ExecutionResult after exception e left the try block at time t:
\* the matching except clause records the error, finally stamps the
\* duration
Failed(res, e, t) ==
    [res EXCEPT !.error = Some(ErrorMessage(e)), !.duration_ms = Duration(t)]

\* an exception execute's handlers catch, raised at time t: the with
\* block closes the client, the error is recorded, and execute returns
ExecuteFails(e, t) ==
    /\ conn' = Closed(conn)
    /\ result' = Failed(result, e, t)
    /\ exc' = Some(e)
    /\ pc' = "done"
    /\ LeaveRetry
    /\ LeavePoll
    /\ UNCHANGED << app_info, session, http_result, exit_code, output >>

\* main's except clauses: exit status 130 for KeyboardInterrupt, 1 otherwise
INTERRUPT_EXIT == 130
MainExit(e) == IF IsInstance(e, "KeyboardInterrupt") THEN INTERRUPT_EXIT ELSE 1

\* main's except clauses: the flow JSON they print
MainOutput(e) ==
    IF IsInstance(e, "KeyboardInterrupt")
    THEN output_error(<< "Test interrupted by user" >>)
    ELSE output_error(<< "Test execution failed: " >> \o e.msg)

\* an exception execute's handlers do not catch, raised at time t inside
\* execute's try block: the with and finally blocks run, execute raises,
\* and main's handler sets the exit status
ExecuteRaises(e, t) ==
    /\ conn' = Closed(conn)
    /\ result' = [result EXCEPT !.duration_ms = Duration(t)]
    /\ exc' = Some(e)
    /\ exit_code' = Some(MainExit(e))
    /\ output' = Some(MainOutput(e))
    /\ pc' = "exited"
    /\ LeaveRetry
    /\ LeavePoll
    /\ UNCHANGED << app_info, session, http_result >>

\* exception e is raised at time t inside execute's try block
Raise(e, t) ==
    IF CaughtByExecute(e) THEN ExecuteFails(e, t) ELSE ExecuteRaises(e, t)

(* ------------------------------------------------------------------ *)
(* main -> TestExecutor.execute                                         *)
(* ------------------------------------------------------------------ *)
Execute ==
    /\ pc = "init"
    /\ result' = [NoResult EXCEPT !.scenario_name = self.scenario.app,
                                  !.platform = self.scenario.platform]
    /\ pc' = "discover"
    /\ UNCHANGED << now, inputs, listenVars, conn, retryVars, pollVars,
                    fetched, app_info, session, http_result, exc, exit_code, output,
                    calls >>

\* the URLs of the three calls, without the base URL: the endpoint and
\* the session id in the path
RunUrl == [path |-> "/e2e/run", id |-> ""]
StatusUrl_fixed(id) == [path |-> "/e2e/status/", id |-> "s1"]

StatusUrl(id) == [path |-> "/e2e/status/", id |-> id]
ResultUrl(id) == [path |-> "/e2e/result/", id |-> id]

\* the client is entered and post_run starts its first attempt
StartSubmit ==
    /\ conn' = "open"
    /\ pc' = "submit"
    /\ attempt' = 0
    /\ phase' = "try"
    /\ url' = Some(RunUrl)
    /\ calls' = Called("post_run")

\* _discover_app with a pre-discovered app: no listener is created
DiscoverPreset ==
    /\ pc = "discover"
    /\ UsePreset(self.app_info)
    /\ app_info' = self.app_info
    /\ StartSubmit
    /\ UNCHANGED << now, inputs, listenVars, pollVars, fetched, result,
                    session, http_result, exc, exit_code, output >>

\* _discover_app without one: UDPListener().listen(...) binds the socket
CreateSocket ==
    /\ pc = "discover"
    /\ ~UsePreset(self.app_info)
    /\ calls' = Called("listen")
    /\ \/ /\ sock' = "open"
          /\ listen_start' = now
          /\ pc' = "listen"
          /\ UNCHANGED << n_dgram, conn, retryVars, pollVars, execVars, exit_code, output >>
       \/ /\ Raise(Exc("OSError", << "bind" >>), now)
          /\ UNCHANGED listenVars
    /\ UNCHANGED << now, inputs, fetched >>

PlatformFilter ==
    IF self.scenario.platform = "" THEN None ELSE Some(self.scenario.platform)

\* listen: one recvfrom that ends in socket.timeout
RecvTimeout ==
    /\ pc = "listen"
    /\ ListenWithinBudget(now, listen_start, self.config.discovery_timeout)
    /\ now + RECV_SLICE <= MaxClock
    /\ now' = now + RECV_SLICE
    /\ UNCHANGED << pc, inputs, listenVars, conn, retryVars, pollVars, fetched,
                    execVars, exit_code, output, calls >>

\* listen: one recvfrom that returns a datagram within the slice; an
\* accepted one ends listen and execute goes on to submit
RecvDatagram ==
    /\ pc = "listen"
    /\ ListenWithinBudget(now, listen_start, self.config.discovery_timeout)
    /\ n_dgram < MaxDatagrams
    /\ \E dg \in Datagrams, host \in Hosts, d \in 0..RECV_SLICE :
          LET info == _parse_broadcast(dg, host)
          IN /\ now + d <= MaxClock
             /\ now' = now + d
             /\ IF info # None /\ ListenAccepts(Val(info), None, PlatformFilter)
                THEN /\ app_info' = info
                     /\ LeaveListen
                     /\ StartSubmit
                ELSE /\ n_dgram' = n_dgram + 1
                     /\ UNCHANGED << app_info, sock, listen_start, conn, pc,
                                     retryVars, calls >>
    /\ UNCHANGED << inputs, pollVars, fetched, result, session, http_result,
                    exc, exit_code, output >>

\* listen: the budget is used up, TimeoutError after the socket is closed
ListenExpired ==
    /\ pc = "listen"
    /\ ~ListenWithinBudget(now, listen_start, self.config.discovery_timeout)
    /\ LeaveListen
    /\ Raise(Exc("TimeoutError", << "No target app found" >>), now)
    /\ UNCHANGED << now, inputs, fetched, calls >>

(* ------------------------------------------------------------------ *)
(* E2EHttpClient: _request_with_retry and the three calls through it.   *)
(* An attempt takes `latency` and ends in one of HttpOutcomes.          *)
(* ------------------------------------------------------------------ *)
\* a retryable failure at time t: sleep before the next attempt while
\* retries remain, else the failure of this attempt leaves the wrapper
RetryOrRaise(outcome, t) ==
    IF RetriesLeft(attempt)
    THEN /\ phase' = "sleep"
         /\ UNCHANGED << pc, conn, attempt, url, pollVars, execVars, exit_code, output >>
    ELSE Raise(AttemptError(outcome), t)

\* how an attempt that got no 2xx response ends (the same for each call)
AttemptFails(outcome, t) ==
    CASE outcome \in Retryable -> RetryOrRaise(outcome, t)
      [] outcome = "4xx" -> Raise(AttemptError(outcome), t)
      [] OTHER ->
            \* a sub-500 status that raise_for_status lets pass: the
            \* response is returned and response.json() fails on it
            Raise(Exc("ValueError", << "json" >>), t)

\* time.sleep(self.retry_policy.get_delay(attempt)); continue
BackoffSleep ==
    /\ pc \in { "submit", "poll_status", "poll_result" }
    /\ phase = "sleep"
    /\ now + get_delay(attempt) <= MaxClock
    /\ now' = now + get_delay(attempt)
    /\ attempt' = attempt + 1
    /\ phase' = "try"
    /\ UNCHANGED << pc, url, inputs, listenVars, conn, pollVars, fetched, execVars,
                    exit_code, output, calls >>

RunBodies == { None } \cup { Some(id) : id \in SessionIds }

\* post_run: one attempt of POST /e2e/run; on success the session is
\* built and poll_until_complete starts its clock
PostRunAttempt ==
    /\ pc = "submit"
    /\ phase = "try"
    /\ now + latency <= MaxClock
    /\ now' = now + latency
    /\ \E outcome \in HttpOutcomes :
          IF outcome = "2xx"
          THEN \E body \in RunBodies :
                  IF body = None
                  THEN Raise(Exc("KeyError", << "session_id" >>), now')
                  ELSE /\ session' = Some([session_id |-> Val(body),
                                           status |-> "running"])
                       /\ LeaveRetry
                       /\ poll_start' = now'
                       /\ session_id' = body
                       /\ pc' = "poll_check"
                       /\ UNCHANGED << conn, status, result, app_info,
                                       http_result, exc, exit_code, output >>
          ELSE AttemptFails(outcome, now')
    /\ UNCHANGED << inputs, listenVars, fetched, calls >>

\* poll_until_complete: the while test; inside the budget get_status is
\* called, outside it TimeoutError is raised
PollCheck ==
    /\ pc = "poll_check"
    /\ IF PollWithinBudget(now, poll_start, self.config.test_timeout)
       THEN /\ pc' = "poll_status"
            /\ attempt' = 0
            /\ phase' = "try"
            /\ url' = Some(StatusUrl(Val(session_id)))
            /\ calls' = Called("get_status")
            /\ UNCHANGED << conn, pollVars, execVars, exit_code, output >>
       ELSE /\ Raise(Exc("TimeoutError",
                                << "Test did not complete within ",
                                   ToString(self.config.test_timeout), "s" >>), now)
            /\ UNCHANGED calls
    /\ UNCHANGED << now, inputs, listenVars, fetched >>

StatusBodies == { None } \cup { Some(st) : st \in StatusValues }

AfterStatus_always(st) == "poll_result"

\* what poll_until_complete does with a fetched status: fetch the result
\* on completed or failed, sleep otherwise
AfterStatus(st) ==
    IF is_completed(st) \/ is_failed(st) THEN "poll_result" ELSE "poll_sleep"

\* get_status: one attempt of GET /e2e/status/<id>
GetStatusAttempt ==
    /\ pc = "poll_status"
    /\ phase = "try"
    /\ now + latency <= MaxClock
    /\ now' = now + latency
    /\ \E outcome \in HttpOutcomes :
          IF outcome = "2xx"
          THEN \E body \in StatusBodies :
                  IF body = None
                  THEN /\ Raise(Exc("KeyError", << "status" >>), now')
                       /\ UNCHANGED calls
                  ELSE /\ status' = body
                       /\ pc' = AfterStatus(Val(body))
                       /\ IF AfterStatus(Val(body)) = "poll_result"
                          THEN /\ attempt' = 0
                               /\ phase' = "try"
                               /\ url' = Some(ResultUrl(Val(session_id)))
                               /\ calls' = Called("get_result")
                          ELSE /\ LeaveRetry
                               /\ UNCHANGED calls
                       /\ UNCHANGED << conn, poll_start, session_id, execVars, exit_code, output >>
          ELSE /\ AttemptFails(outcome, now')
               /\ UNCHANGED calls
    /\ UNCHANGED << inputs, listenVars, fetched >>

PollSleep_shortened ==
    /\ pc = "poll_sleep"
    /\ now + self.config.poll_interval <= MaxClock
    /\ now' = now + (IF self.config.poll_interval > latency
                     THEN self.config.poll_interval - latency ELSE 0)
    /\ pc' = "poll_check"
    /\ calls' = Called("poll_sleep")
    /\ UNCHANGED << inputs, listenVars, conn, retryVars, pollVars, fetched,
                    execVars, exit_code, output >>

\* time.sleep(poll_interval) at the end of the loop body
PollSleep ==
    /\ pc = "poll_sleep"
    /\ now + self.config.poll_interval <= MaxClock
    /\ now' = now + self.config.poll_interval
    /\ pc' = "poll_check"
    /\ calls' = Called("poll_sleep")
    /\ UNCHANGED << inputs, listenVars, conn, retryVars, pollVars, fetched,
                    execVars, exit_code, output >>

ResultBody(shots, logs, err) == [screenshots |-> shots, logs |-> logs, error |-> err]

ResultBodies ==
    { None }
    \cup { Some(ResultBody(sh, lg, None)) : sh \in ScreenshotLists, lg \in RawLogLists }
    \cup { Some(ResultBody(<< >>, << >>, er)) : er \in ErrorTexts }

\* get_result: the TestResult built from the response body; the body's
\* "status" is taken to be the status the status endpoint last reported
TestResult(st, body) ==
    [status |-> st,
     screenshots |-> body.screenshots,
     logs |-> [i \in DOMAIN body.logs |-> LogEntry(body.logs[i])],
     error |-> body.error]

RemoteTestFailure_notext(res) ==
    Exc("RuntimeError", << "Test failed: ", "Unknown error" >>)

\* the RuntimeError poll_until_complete raises for a failed test
RemoteTestFailure(res) ==
    Exc("RuntimeError", << "Test failed: ", ErrorOrUnknown(res.error) >>)

\* get_result: one attempt of GET /e2e/result/<id>; with the result
\* fetched, poll_until_complete returns it (completed) or raises (failed)
GetResultAttempt ==
    /\ pc = "poll_result"
    /\ phase = "try"
    /\ now + latency <= MaxClock
    /\ now' = now + latency
    /\ \E outcome \in HttpOutcomes :
          IF outcome = "2xx"
          THEN \E body \in ResultBodies :
                  IF body = None
                  THEN /\ Raise(Exc("KeyError", << "status" >>), now')
                       /\ UNCHANGED fetched
                  ELSE LET res == TestResult(Val(status), Val(body))
                       IN /\ fetched' = Some(res)
                          /\ IF is_completed(Val(status))
                             THEN /\ http_result' = Some(res)
                                  /\ conn' = Closed(conn)
                                  /\ pc' = "collect"
                                  /\ LeaveRetry
                                  /\ LeavePoll
                                  /\ UNCHANGED << result, app_info, session, exc,
                                                  exit_code, output >>
                             ELSE Raise(RemoteTestFailure(res), now')
          ELSE /\ AttemptFails(outcome, now')
               /\ UNCHANGED fetched
    /\ UNCHANGED << inputs, listenVars, calls >>

(* ------------------------------------------------------------------ *)
(* execute, steps 5 to 7, and main's handling of what execute returns.  *)
(* ------------------------------------------------------------------ *)
\* step 5: the logs of the final result are copied to the ExecutionResult
Collect ==
    /\ pc = "collect"
    /\ result' = [result EXCEPT !.logs = Val(http_result).logs]
    /\ pc' = "assert"
    /\ UNCHANGED << now, inputs, listenVars, conn, retryVars, pollVars,
                    fetched, app_info, session, http_result, exc, exit_code, output,
                    calls >>

\* what execute stores from the assertion report before it returns
\* the report stored without the verdict taken from it
WithReport_verdictless(res, results, t) ==
    [res EXCEPT !.assertion_report = Some(results),
                !.duration_ms = Duration(t)]

\* result.assertion_report and result.all_passed after evaluate returned,
\* and the duration that the finally block sets
WithReport(res, results, t) ==
    [res EXCEPT !.assertion_report = Some(results),
                !.all_passed = all_passed(results),
                !.duration_ms = Duration(t)]

\* step 6: AssertionEngine(self.gemini_validator).evaluate(...); the
\* report is stored and execute returns, or evaluate raises
Evaluate ==
    /\ pc = "assert"
    /\ calls' = Called("evaluate")
    /\ \E raws \in [DOMAIN self.scenario.assertions -> RawAnswers] :
          LET r == evaluate(self.scenario.assertions,
                            screenshots_dict(Val(http_result).screenshots),
                            self.gemini_validator, raws)
          IN IF r.raised
             THEN Raise(Exc("TypeError", << "not iterable" >>), now)
             ELSE /\ result' = WithReport(result, r.results, now)
                  /\ pc' = "done"
                  /\ UNCHANGED << conn, retryVars, pollVars, app_info, session,
                                  http_result, exc, exit_code, output >>
    /\ UNCHANGED << now, inputs, listenVars, fetched >>

\* main: exit status 1 unless the flow output says success
ExitCode(success) == IF success THEN 0 ELSE 1

\* main after execute returned: to_flow_json, print, exit status
CliOutput ==
    /\ pc = "done"
    /\ exit_code' = Some(ExitCode(FlowSuccess(result.assertion_report, result.error)))
    /\ output' = Some(FlowOutput(result.assertion_report, result.error))
    /\ pc' = "exited"
    /\ UNCHANGED << now, inputs, listenVars, conn, retryVars, pollVars,
                    fetched, execVars, calls >>

\* an operator interrupt (KeyboardInterrupt) at any point of main's try
\* block: inside execute it is raised through execute's handlers, outside
\* it reaches main's handler directly
Interrupt ==
    /\ pc # "exited"
    /\ LeaveListen
    /\ IF pc \in { "init", "done" }
       THEN /\ exc' = Some(Exc("KeyboardInterrupt", << >>))
            /\ exit_code' = Some(MainExit(Exc("KeyboardInterrupt", << >>)))
            /\ output' = Some(MainOutput(Exc("KeyboardInterrupt", << >>)))
            /\ pc' = "exited"
            /\ UNCHANGED << conn, retryVars, pollVars, result, app_info,
                            session, http_result >>
       ELSE Raise(Exc("KeyboardInterrupt", << >>), now)
    /\ UNCHANGED << now, inputs, fetched, calls >>

(* ------------------------------------------------------------------ *)
(* Specifications.                                                      *)
(* ------------------------------------------------------------------ *)
\* the steps of a run that is not interrupted
RunStep ==
    \/ Execute
    \/ DiscoverPreset
    \/ CreateSocket
    \/ RecvTimeout
    \/ RecvDatagram
    \/ ListenExpired
    \/ PostRunAttempt
    \/ BackoffSleep
    \/ PollCheck
    \/ GetStatusAttempt
    \/ PollSleep
    \/ GetResultAttempt
    \/ Collect
    \/ Evaluate
    \/ CliOutput

Next == RunStep \/ Interrupt

Spec == Init /\ [][Next]_vars

\* the runs followed for termination: every network and application
\* behaviour, for one scenario with the oracle configured (the declared
\* assertions and the oracle take no part in any blocking call)
LiveInit ==
    /\ Init
    /\ self.gemini_validator
    /\ self.scenario.assertions = << Assertion("screenshot", << "h" >>, None) >>

\* no operator interrupt, and every blocking call returns
LiveSpec == LiveInit /\ [][RunStep]_vars /\ WF_vars(RunStep)

TypeOK ==
    /\ pc \in Positions
    /\ now \in 0..MaxClock
    /\ phase \in { "idle", "try", "sleep" }
    /\ attempt \in 0..max_retries
    /\ sock \in { "none", "open", "closed" }
    /\ conn \in { "none", "open", "closed" }

\* the clock guards of the time-advancing steps never hold a run back:
\* until main has exited some step of the run is enabled
NeverStuck == pc # "exited" => ENABLED RunStep

(* ------------------------------------------------------------------ *)
(* _request_with_retry on its own, under any policy, with the history   *)
(* of the call kept in rw. The variables of main stay as they are.      *)
(* ------------------------------------------------------------------ *)
\* main's variables while a component is followed on its own
Parked ==
    /\ MainInit
    /\ self.scenario.assertions = << >>
    /\ ~self.gemini_validator
    /\ self.app_info = None
    /\ self.config.test_timeout = 0
    /\ latency = 0

mainVars == << pc, now, self, latency, start_time, listenVars, conn, retryVars,
               pollVars, fetched, execVars, exit_code, output, calls >>

RequestUrls == { RunUrl, StatusUrl("s1"), ResultUrl("s1") }

RetryInit ==
    /\ Parked
    /\ schedule = NoSchedule
    /\ th = NoHandler
    /\ ls = NoListen
    /\ ev = NoEvaluation
    /\ hc = NoHealth
    /\ pl = NoPoll
    /\ rw \in { Request(p, u) : p \in Policies, u \in RequestUrls }

\* a failure at index `attempt` of the loop
Failure(outcome, a) == [error |-> AttemptError(outcome), attempt |-> a]

\* self._session.request(...) and what the loop body does with its end
RwAttempt ==
    /\ rw.phase = "try"
    /\ \E outcome \in WrapperOutcomes :
       \E accepted \in (IF rw.url = RunUrl THEN AcceptedBy(outcome) ELSE { FALSE }) :
          LET fs == Append(rw.failures, Failure(outcome, rw.attempt))
              r == [rw EXCEPT !.outcomes = Append(@, outcome),
                              !.started = IF accepted THEN @ + 1 ELSE @]
          IN rw' =
               CASE outcome \in { "2xx", "3xx" } ->
                       [r EXCEPT !.phase = "returned", !.response = Some(outcome)]
                 [] outcome = "4xx" ->
                       [r EXCEPT !.phase = "raised", !.failures = fs,
                                 !.raised = Some(Failure(outcome, rw.attempt))]
                 [] outcome = "6xx" ->
                       IF HasRetriesLeft(rw.policy, rw.attempt)
                       THEN [r EXCEPT !.phase = "sleep"]
                       ELSE [r EXCEPT !.phase = "raised", !.fell_through = TRUE,
                                      !.raised = Some(AfterRetryLoop(rw.failures,
                                                                     rw.attempt))]
                 [] OTHER ->
                       IF HasRetriesLeft(rw.policy, rw.attempt)
                       THEN [r EXCEPT !.phase = "sleep", !.failures = fs]
                       ELSE [r EXCEPT !.phase = "raised", !.failures = fs,
                                      !.raised = Some(Surfaced(fs))]
    /\ UNCHANGED << mainVars, schedule, th, ls, ev, hc, pl >>

\* delay = get_delay(attempt); time.sleep(delay); continue
RwSleep ==
    /\ rw.phase = "sleep"
    /\ rw' = [rw EXCEPT !.sleeps = Append(@, RetryPolicy_get_delay(rw.policy, rw.attempt)),
                        !.attempt = @ + 1,
                        !.phase = "try"]
    /\ UNCHANGED << mainVars, schedule, th, ls, ev, hc, pl >>

RetryNext == RwAttempt \/ RwSleep

RetrySpec == RetryInit /\ [][RetryNext]_vars

(* ------------------------------------------------------------------ *)
(* RetryPolicy.get_delay on its own: asked of a policy for attempt 0,   *)
(* 1, ... in turn.                                                      *)
(* ------------------------------------------------------------------ *)
DelayInit ==
    /\ Parked
    /\ rw = NoRequest
    /\ th = NoHandler
    /\ ls = NoListen
    /\ ev = NoEvaluation
    /\ hc = NoHealth
    /\ pl = NoPoll
    /\ schedule \in { Schedule(p) : p \in AnyPolicies }

\* policy.get_delay(a) for the next attempt number a
GetDelay ==
    /\ Len(schedule.delays) <= MaxAttemptArg
    /\ schedule' = [schedule EXCEPT
                       !.delays = Append(@, RetryPolicy_get_delay(schedule.policy, Len(@)))]
    /\ UNCHANGED << mainVars, rw, th, ls, ev, hc, pl >>

DelaySpec == DelayInit /\ [][GetDelay]_vars

(* ------------------------------------------------------------------ *)
(* TimeoutHandler.execute_with_retry on its own. The operation takes    *)
(* 0..MaxOpTime seconds and returns or raises.                          *)
(* ------------------------------------------------------------------ *)
BudgetInit ==
    /\ Parked
    /\ rw = NoRequest
    /\ schedule = NoSchedule
    /\ ls = NoListen
    /\ ev = NoEvaluation
    /\ hc = NoHealth
    /\ pl = NoPoll
    /\ th \in { [TimeoutHandler(t, c) EXCEPT !.on_retry = b] :
                   t \in 0..MaxBudget, c \in RetryConfigs, b \in BOOLEAN }

\* self.start(); last_error = None; delay = initial_delay
ThStart ==
    /\ th.phase = "start"
    /\ th' = [th EXCEPT !._start_time = Some(th.now),
                        !.delay = th.retry_config.initial_delay,
                        !.phase = "loop"]
    /\ UNCHANGED << mainVars, rw, schedule, ls, ev, hc, pl >>

\* the head of the for loop: with the range used up or the budget
\* expired the loop is left and last_error, or TimeoutError, is raised
ThLoop ==
    /\ th.phase = "loop"
    /\ th' = IF th.attempt > th.retry_config.max_retries \/ is_expired(th)
             THEN [th EXCEPT !.phase = "raised",
                             !.raised = Some(AfterLoop(th.last_error))]
             ELSE [th EXCEPT !.phase = "operation"]
    /\ UNCHANGED << mainVars, rw, schedule, ls, ev, hc, pl >>

\* return operation(), or the except clause up to the call of on_retry
ThOperation ==
    /\ th.phase = "operation"
    /\ \E d \in 0..MaxOpTime, ok \in BOOLEAN :
          th' = IF ok
                THEN [th EXCEPT !.now = @ + d, !.phase = "returned",
                                !.ran = Append(@, TRUE),
                                !.result = Some(OperationValue(th.attempt))]
                ELSE IF th.attempt < th.retry_config.max_retries
                THEN [th EXCEPT !.now = @ + d,
                                !.ran = Append(@, FALSE),
                                !.last_error = Some(OperationError(th.attempt)),
                                !.retries = OnRetry(th, OperationError(th.attempt)),
                                !.phase = "backoff"]
                ELSE [th EXCEPT !.now = @ + d,
                                !.ran = Append(@, FALSE),
                                !.last_error = Some(OperationError(th.attempt)),
                                !.attempt = @ + 1,
                                !.phase = "loop"]
    /\ UNCHANGED << mainVars, rw, schedule, ls, ev, hc, pl >>

\* wait_time = min(delay, self.remaining); sleep; the next delay
ThBackoff ==
    /\ th.phase = "backoff"
    /\ LET wait_time == Min(th.delay, remaining(th))
       IN th' = [th EXCEPT
                   !.now = IF wait_time > 0 THEN @ + wait_time ELSE @,
                   !.sleeps = Append(@, [wait_time |-> wait_time,
                                         delay |-> th.delay,
                                         remaining |-> remaining(th)]),
                   !.delay = Min(th.delay * th.retry_config.backoff_factor,
                                 th.retry_config.max_delay),
                   !.attempt = @ + 1,
                   !.phase = "loop"]
    /\ UNCHANGED << mainVars, rw, schedule, ls, ev, hc, pl >>

BudgetNext == ThStart \/ ThLoop \/ ThOperation \/ ThBackoff

BudgetSpec == BudgetInit /\ [][BudgetNext]_vars

(* ------------------------------------------------------------------ *)
(* UDPListener.listen / listen_all on their own, for every timeout up   *)
(* to MaxListenTimeout, with and without filters, keeping the arrivals. *)
(* ------------------------------------------------------------------ *)
ListenInit ==
    /\ Parked
    /\ rw = NoRequest
    /\ schedule = NoSchedule
    /\ th = NoHandler
    /\ ev = NoEvaluation
    /\ hc = NoHealth
    /\ pl = NoPoll
    /\ ls \in { Listen("listen", t, af, pf) :
                   t \in 0..MaxListenTimeout,
                   af \in { None, Some(<< "a" >>) },
                   pf \in { None, Some("unity") } }
             \cup { Listen("listen_all", t, af, None) :
                      t \in 0..MaxListenTimeout,
                      af \in { None, Some(<< "a" >>) } }

\* the finally block of both: self.close()
LsClose(l) == [l EXCEPT !._sock = Closed(@)]

\* what the loop body does with the parsed datagram
LsHandle(l, info) ==
    IF info = None THEN l
    ELSE IF l.mode = "listen"
    THEN IF ListenAccepts(Val(info), l.app_filter, l.platform_filter)
         THEN LsClose([l EXCEPT !.phase = "returned", !.result = info])
         ELSE l
    ELSE IF FilterRejects(l.app_filter, Some(Val(info).app))
         THEN l
         ELSE [l EXCEPT !.discovered = Discover(@, Val(info))]

\* self._sock = self._create_socket(), before the try block: the socket is
\* made and bound and self._sock holds it, or bind raises OSError out of
\* the call, past the assignment and the finally block, with the socket
\* made by socket.socket() still open in the local of _create_socket
LsCreate ==
    /\ ls.phase = "create"
    /\ \/ ls' = [ls EXCEPT !._sock = "open", !.phase = "loop"]
       \/ ls' = [ls EXCEPT !.unbound = "open", !.phase = "bind_failed",
                           !.raised = Some(Exc("OSError", << "bind" >>))]
    /\ UNCHANGED << mainVars, rw, schedule, th, ev, hc, pl >>

\* recvfrom returns a datagram within the receive slice
LsRecv ==
    /\ ls.phase = "loop"
    /\ ListenWithinBudget(ls.now, ls.start_time, ls.timeout)
    /\ Len(ls.arrivals) < MaxArrivals
    /\ \E a \in Arrivals, d \in 0..RECV_SLICE :
       \E raises \in ParseRaises(a.dg) :
          LET l == [ls EXCEPT !.now = @ + d, !.arrivals = Append(@, a)]
          IN ls' = IF raises
                   THEN LsClose([l EXCEPT !.phase = "raised",
                                          !.raised = Some(Exc("RecursionError",
                                                              << "maximum recursion depth exceeded" >>))])
                   ELSE LsHandle(l, _parse_broadcast(a.dg, a.host))
    /\ UNCHANGED << mainVars, rw, schedule, th, ev, hc, pl >>

\* recvfrom ends in socket.timeout after the slice
LsSlice ==
    /\ ls.phase = "loop"
    /\ ListenWithinBudget(ls.now, ls.start_time, ls.timeout)
    /\ ls' = [ls EXCEPT !.now = @ + RECV_SLICE]
    /\ UNCHANGED << mainVars, rw, schedule, th, ev, hc, pl >>

\* the while condition is false: listen raises TimeoutError, listen_all
\* returns the values of discovered
LsExpired ==
    /\ ls.phase = "loop"
    /\ ~ListenWithinBudget(ls.now, ls.start_time, ls.timeout)
    /\ ls' = IF ls.mode = "listen"
             THEN LsClose([ls EXCEPT !.phase = "raised",
                                     !.raised = Some(Exc("TimeoutError",
                                                         << "No target app found" >>))])
             ELSE LsClose([ls EXCEPT !.phase = "returned",
                                     !.result = Some(ls.discovered)])
    /\ UNCHANGED << mainVars, rw, schedule, th, ev, hc, pl >>

ListenNext == LsCreate \/ LsRecv \/ LsSlice \/ LsExpired

ListenSpec == ListenInit /\ [][ListenNext]_vars

(* ------------------------------------------------------------------ *)
(* health_check called up to MaxHealthChecks times on one client.       *)
(* ------------------------------------------------------------------ *)
HealthInit ==
    /\ Parked
    /\ rw = NoRequest
    /\ schedule = NoSchedule
    /\ th = NoHandler
    /\ ls = NoListen
    /\ ev = NoEvaluation
    /\ pl = NoPoll
    /\ hc = << >>

\* the get returns a response
HcResponse ==
    /\ Len(hc) < MaxHealthChecks
    /\ \E code \in StatusCodes :
          hc' = Append(hc, HealthCall([kind |-> "response", status_code |-> code],
                                      Some(Healthy(code)), None))
    /\ UNCHANGED << mainVars, rw, schedule, th, ls, ev, pl >>

\* the get raises
HcFailure ==
    /\ Len(hc) < MaxHealthChecks
    /\ \E f \in GetFailures :
          hc' = Append(hc, IF CaughtByHealthCheck(GetError(f))
                           THEN HealthCall([kind |-> f, status_code |-> 0],
                                           Some(FALSE), None)
                           ELSE HealthCall([kind |-> f, status_code |-> 0],
                                           None, Some(GetError(f))))
    /\ UNCHANGED << mainVars, rw, schedule, th, ls, ev, pl >>

HealthNext == HcResponse \/ HcFailure

HealthSpec == HealthInit /\ [][HealthNext]_vars

(* ------------------------------------------------------------------ *)
(* poll_until_complete with and without callback, on the same answers.  *)
(* ------------------------------------------------------------------ *)
PollInit ==
    /\ Parked
    /\ rw = NoRequest
    /\ schedule = NoSchedule
    /\ th = NoHandler
    /\ ls = NoListen
    /\ ev = NoEvaluation
    /\ hc = NoHealth
    /\ pl \in { [callback |-> cb, plain |-> PollRun(t, i), hooked |-> PollRun(t, i)] :
                   cb \in Callbacks, t \in 0..MaxTestTimeout, i \in 1..MaxPollInterval }

\* both calls go once through the loop; the server answers both alike
PlIterate ==
    /\ pl.plain.phase = "loop" \/ pl.hooked.phase = "loop"
    /\ \E answer \in StatusAnswers :
          pl' = [pl EXCEPT !.plain = PollIteration(@, "none", answer),
                           !.hooked = PollIteration(@, pl.callback, answer)]
    /\ UNCHANGED << mainVars, rw, schedule, th, ls, ev, hc >>

PollNext == PlIterate

PollSpec == PollInit /\ [][PollNext]_vars

(* ------------------------------------------------------------------ *)
(* Step 6 of execute on its own: the dict, then evaluate.               *)
(* ------------------------------------------------------------------ *)
EvalInit ==
    /\ Parked
    /\ rw = NoRequest
    /\ schedule = NoSchedule
    /\ th = NoHandler
    /\ ls = NoListen
    /\ hc = NoHealth
    /\ pl = NoPoll
    /\ ev \in { Evaluation(a, c, v, raws) :
                   a \in EvalAssertionLists, c \in Captures, v \in BOOLEAN,
                   raws \in UNION { [1..n -> EvalRawAnswers] : n \in 0..2 } }
    /\ Len(ev.raws) = Len(ev.assertions)

\* screenshots_dict = {ss.name: ss.data for ss in http_result.screenshots}
EvDict ==
    /\ ev.phase = "collected"
    /\ ev' = [ev EXCEPT !.phase = "dict",
                        !.screenshots_dict = screenshots_dict(ev.captured)]
    /\ UNCHANGED << mainVars, rw, schedule, th, ls, hc, pl >>

\* the properties of an AssertionReport, as its readers get them
Summary(results) ==
    [all_passed |-> all_passed(results), passed_count |-> passed_count(results),
     failed_count |-> failed_count(results), total_count |-> total_count(results)]

\* assertion_engine.evaluate(self.scenario.assertions, screenshots_dict)
EvEvaluate ==
    /\ ev.phase = "dict"
    /\ LET r == evaluate(ev.assertions, ev.screenshots_dict, ev.gemini_validator,
                         ev.raws)
       IN ev' = IF r.raised
                THEN [ev EXCEPT !.phase = "raised",
                                !.raised = Some(Exc("TypeError", << "in" >>))]
                ELSE [ev EXCEPT !.phase = "returned",
                                !.report = Some(r.results),
                                !.summary = Some(Summary(r.results)),
                                !.calls = [i \in DOMAIN ev.assertions |->
                                              OracleCall(ev.assertions[i],
                                                         ev.screenshots_dict,
                                                         ev.gemini_validator)]]
    /\ UNCHANGED << mainVars, rw, schedule, th, ls, hc, pl >>

EvalNext == EvDict \/ EvEvaluate

EvalSpec == EvalInit /\ [][EvalNext]_vars

(* ------------------------------------------------------------------ *)
(* The stages of a run.                                                 *)
(* ------------------------------------------------------------------ *)
PollPositions == { "poll_check", "poll_status", "poll_sleep" }

\* the stage a position of execute belongs to: INIT 0 (the decision of
\* _discover_app included), DISCOVERING 1, SUBMITTING 2, POLLING 3,
\* COLLECTING 4 (the final result fetch and the copy of its logs),
\* ASSERTING 5, DONE 6
StageRank(p) ==
    CASE p \in { "init", "discover" } -> 0
      [] p = "listen" -> 1
      [] p = "submit" -> 2
      [] p \in PollPositions -> 3
      [] p \in { "poll_result", "collect" } -> 4
      [] p = "assert" -> 5
      [] OTHER -> 6

\* C1: a step stays in its stage, enters the next stage, or goes to DONE;
\* the only stage ever skipped is discovery, with a preset endpoint
C1_Step ==
    LET r == StageRank(pc)
        q == StageRank(pc')
    IN \/ q = r
       \/ q = r + 1
       \/ q = StageRank("done")
       \/ r = 0 /\ q = 2 /\ self.app_info # None

\* C1: no status poll without a session returned by submit, no assertion
\* evaluation without the final result fetched, no UDP listen with a
\* preset endpoint, and no operation of a stage started twice
C1_Order ==
    /\ (calls.get_status > 0 \/ pc \in PollPositions)
          => session # None /\ calls.post_run = 1
    /\ (calls.evaluate > 0 \/ pc = "assert")
          => http_result # None /\ http_result = fetched /\ calls.get_result = 1
    /\ self.app_info # None => calls.listen = 0 /\ sock = "none"
    /\ \A op \in { "listen", "post_run", "get_result", "evaluate" } : calls[op] <= 1

\* C1: the orchestrator enters its stages only in the order discovery,
\* submit, poll, result fetch, assertion, done, each at most once; it
\* polls only after submit returned a session, evaluates assertions only
\* after the final result fetch, and never listens when the endpoint is
\* preset
C1_StageOrder == [][C1_Step /\ C1_Order']_vars

\* a run that went through every stage, discovery included
C1_Witness ==
    /\ pc = "done"
    /\ calls.listen = 1
    /\ calls.get_status >= 2
    /\ calls.evaluate = 1
    /\ result.error = None

(* ------------------------------------------------------------------ *)
(* Failures of a stage.                                                 *)
(* ------------------------------------------------------------------ *)
\* a failure other than the operator's interrupt has ended execute
StageFailed == exc # None /\ Val(exc).type # "KeyboardInterrupt"

\* the stage each operation belongs to
OpStage(op) ==
    CASE op = "listen" -> 1
      [] op = "post_run" -> 2
      [] op \in { "get_status", "poll_sleep" } -> 3
      [] op = "get_result" -> 4
      [] OTHER -> 5

\* the stage a step taken from position p works in
FailStage(p) == IF p = "discover" THEN 1 ELSE StageRank(p)

\* C2: the step in which a stage fails goes to DONE with the error set and
\* leaves every operation of a later stage uncalled; from DONE on no
\* operation is called and nothing of the run changes
C2_Step ==
    /\ (exc = None /\ StageFailed')
          => /\ pc' = "done"
             /\ result'.error # None
             /\ \A op \in DOMAIN calls :
                   /\ OpStage(op) > FailStage(pc) => calls'[op] = 0
                   /\ op \notin { "get_status", "poll_sleep" } => calls'[op] <= 1
    /\ pc \in { "done", "exited" }
          => /\ pc' \in { "done", "exited" }
             /\ calls' = calls
             /\ result' = result
             /\ conn' = conn /\ sock' = sock

\* C2: when a stage fails the orchestrator neither re-attempts it nor
\* performs any operation of a later stage; the run goes directly to DONE
\* with ExecutionResult.error set
C2_FailureShortCircuits == [][C2_Step]_vars

\* submit failed after discovery: DONE with the error set, nothing polled
C2_Witness ==
    /\ pc = "done"
    /\ StageFailed
    /\ result.error # None
    /\ calls.listen = 1
    /\ calls.post_run = 1
    /\ calls.get_status = 0

\* C3: for every failure of a stage execute returns (it does not raise) an
\* ExecutionResult with the error set, all_passed false and the duration
\* stamped, and main's exit status for that run is not zero
C3_FailureReported ==
    StageFailed
       => /\ pc \in { "done", "exited" }
          /\ result.error # None
          /\ ~result.all_passed
          /\ result.duration_ms = Duration(now)
          /\ pc = "exited" => exit_code # None /\ Val(exit_code) # 0

\* a transport timeout surfaced after the retries, reported, exit status 1
C3_Witness ==
    /\ pc = "exited"
    /\ StageFailed
    /\ Val(exc).type = "requests.Timeout"
    /\ now > 0
    /\ exit_code = Some(1)

(* ------------------------------------------------------------------ *)
(* allPassed.                                                           *)
(* ------------------------------------------------------------------ *)
\* every declared assertion has its own result in the report, and it passed
EveryAssertionPassed ==
    /\ result.assertion_report # None
    /\ LET rs == Val(result.assertion_report)
       IN /\ Len(rs) = Len(self.scenario.assertions)
          /\ \A i \in DOMAIN rs :
                rs[i].assertion = self.scenario.assertions[i] /\ rs[i].passed

\* C5: at DONE all_passed is true iff the run has no error and every
\* declared assertion produced a passing result; with no declared
\* assertion, iff the run has no error; the report's status agrees
C5_AllPassed ==
    pc = "done"
       => /\ result.all_passed <=> (result.error = None /\ EveryAssertionPassed)
          /\ self.scenario.assertions = << >>
                => (result.all_passed <=> result.error = None)
          /\ ReportPassed(result.assertion_report, result.error) = result.all_passed

\* a run whose declared assertions all passed
C5_Witness ==
    /\ pc = "done"
    /\ result.all_passed
    /\ Len(self.scenario.assertions) >= 1
    /\ calls.evaluate = 1

(* ------------------------------------------------------------------ *)
(* Termination.                                                         *)
(* ------------------------------------------------------------------ *)
\* C4: with no operator interrupt and every blocking call returning, every
\* run reaches DONE (execute returns), whatever the network and the
\* application under test do
C4_ReachesDone == <>(pc = "done")

\* a run whose status never became terminal, ended by the poll timeout
C4_Witness ==
    /\ pc = "done"
    /\ exc # None
    /\ Val(exc).type = "TimeoutError"
    /\ calls.get_status >= 2
    /\ calls.poll_sleep >= 2

(* ------------------------------------------------------------------ *)
(* The message of each failure subtype.                                 *)
(* ------------------------------------------------------------------ *)
\* C6: each failure subtype has its own message in ExecutionResult.error:
\* "Timeout: ..." for a discovery or poll timeout, "Connection failed: ..."
\* for a transport connection failure surfaced after the retries, the
\* server's failure text for a remote test failure, and "Unexpected
\* error: ..." only for a failure of no other subtype
C6_MessagePerSubtype ==
    (pc = "done" /\ StageFailed)
       => LET e == Val(exc)
              text == Val(result.error)
          IN /\ e.type = "TimeoutError" => text = << "Timeout: " >> \o e.msg
             /\ e.type = "requests.ConnectionError"
                   => text = << "Connection failed: " >> \o e.msg
             /\ e.type = "RuntimeError" => text = e.msg
             /\ text[1] = "Unexpected error: "
                   => e.type \notin { "TimeoutError", "requests.ConnectionError",
                                      "RuntimeError" }

(* ------------------------------------------------------------------ *)
(* poll_until_complete and the final result.                            *)
(* ------------------------------------------------------------------ *)
\* the text RemoteTestFailure is to carry for a fetched result
FailureText(res) ==
    IF res.error = None \/ res.error = Some("") THEN "Unknown error"
    ELSE Val(res.error)

\* C7: the step that fetches status `failed` starts the one call of
\* get_result; from then on there is no status fetch, no sleep and no
\* second call, and when the result arrives the run fails with
\* "Test failed: " followed by that result's error text
C7_Step ==
    /\ (status # Some("failed") /\ status' = Some("failed"))
          => /\ calls.get_result = 0
             /\ calls'.get_result = 1
             /\ pc' = "poll_result"
    /\ status = Some("failed")
          => /\ calls' = calls
             /\ pc' \in { "poll_result", "done", "exited" }
             /\ fetched' # fetched
                   => LET m == << "Test failed: ", FailureText(Val(fetched')) >>
                      IN /\ pc' = "done"
                         /\ exc' = Some(Exc("RuntimeError", m))
                         /\ result'.error = Some(m)

C8_Step ==
    /\ calls'.get_result # calls.get_result
          => /\ calls.get_result = 0
             /\ status' # None /\ TerminalStatus(Val(status'))
             /\ calls'.get_status = calls.get_status
    /\ (status # Some("completed") /\ status' = Some("completed"))
          => calls'.get_result = 1 /\ pc' = "poll_result"
    /\ calls.get_result >= 1
          => /\ calls'.get_status = calls.get_status
             /\ calls'.poll_sleep = calls.poll_sleep
             /\ calls'.get_result = calls.get_result
    /\ (status = Some("completed") /\ fetched' # fetched)
          => http_result' = fetched' /\ pc' = "collect"
    /\ http_result' # http_result
          => status = Some("completed") /\ http_result' = fetched'

C9_TimeoutWithinOneInterval ==
    (pc = "poll_check"
        /\ ~PollWithinBudget(now, poll_start, self.config.test_timeout))
       => now - poll_start
             <= self.config.test_timeout + self.config.poll_interval

\* C10: in every state inside poll_until_complete the time since polling
\* started is at most the configured timeout
C10_PollingWithinTimeout ==
    pc \in PollPositions \cup { "poll_result" }
       => now - poll_start <= self.config.test_timeout

(* ------------------------------------------------------------------ *)
(* The retry wrapper (RetrySpec).                                       *)
(* ------------------------------------------------------------------ *)
\* C11: in every call of the wrapper the number of retries (the sleeps
\* taken, the loop index) is at most policy.max_retries and the number
\* of HTTP attempts at most max_retries + 1, whatever the outcomes
C11_RetriesBounded ==
    /\ rw.attempt <= rw.policy.max_retries
    /\ Len(rw.sleeps) <= rw.policy.max_retries
    /\ Len(rw.outcomes) <= rw.policy.max_retries + 1

\* a call that used up its retries on 5xx, connection failure and timeout
C11_Witness ==
    /\ rw.phase = "raised"
    /\ rw.policy.max_retries >= 2
    /\ Len(rw.outcomes) = rw.policy.max_retries + 1
    /\ Retryable \subseteq { rw.outcomes[i] : i \in DOMAIN rw.outcomes }

\* C12: a retryable failure with retries left is followed by a sleep of
\* get_delay(k) before retry k (k from 0) and then by another attempt;
\* with no retry left, the failure of that last attempt is what is raised
C12_BackoffThenLastFailure ==
    LET n == Len(rw.outcomes)
    IN /\ \A i \in 1..n :
             rw.outcomes[i] \in Retryable /\ i <= rw.policy.max_retries
                => \/ i < n
                   \/ rw.phase \in { "sleep", "try" }
       /\ Len(rw.sleeps) = (IF rw.phase = "try" THEN n ELSE n - 1)
       /\ \A k \in DOMAIN rw.sleeps :
             rw.sleeps[k] = RetryPolicy_get_delay(rw.policy, k - 1)
       /\ rw.phase = "raised" /\ rw.outcomes[n] \in Retryable
             => /\ n = rw.policy.max_retries + 1
                /\ rw.raised = Some(Failure(rw.outcomes[n], n - 1))

\* retries used up, the last failure of another kind than the first
C12_Witness ==
    /\ rw.phase = "raised"
    /\ rw.policy.max_retries >= 2
    /\ Len(rw.outcomes) = rw.policy.max_retries + 1
    /\ rw.outcomes[Len(rw.outcomes)] \in Retryable
    /\ rw.outcomes[1] # rw.outcomes[Len(rw.outcomes)]
    /\ rw.sleeps[1] # rw.sleeps[2]

\* C13: an attempt that ends in a status below 500 is the last one, with
\* no sleep after it: 2xx is returned, any other such status raises
\* HTTPError
C13_Sub500Ends ==
    \A i \in DOMAIN rw.outcomes :
       rw.outcomes[i] \in Sub500
          => /\ i = Len(rw.outcomes)
             /\ Len(rw.sleeps) = i - 1
             /\ IF rw.outcomes[i] = "2xx"
                THEN rw.phase = "returned" /\ rw.response = Some("2xx")
                ELSE /\ rw.phase = "raised"
                     /\ rw.raised = Some(Failure(rw.outcomes[i], i - 1))
                     /\ Val(rw.raised).error.type = "requests.HTTPError"

\* C14: the call that submits the run starts at most one session on the
\* AUT, and exactly one when it returns the AUT's answer
C14_OneSessionPerRun ==
    rw.url = RunUrl
       => /\ rw.started <= 1
          /\ rw.phase = "returned" /\ rw.response = Some("2xx") => rw.started = 1

(* ------------------------------------------------------------------ *)
(* The session id, the connection, the interrupt, the stored result     *)
(* (Spec).                                                              *)
(* ------------------------------------------------------------------ *)
RequestPositions == { "submit", "poll_status", "poll_result" }

\* every status and result request in flight, and poll_until_complete
\* itself, carry the session id that post_run returned
C15_Carried ==
    /\ pc \in PollPositions \cup { "poll_result" }
          => session # None /\ session_id = Some(Val(session).session_id)
    /\ pc = "poll_status"
          => /\ url # None
             /\ Val(url).path = "/e2e/status/"
             /\ Val(url).id = Val(session).session_id
    /\ pc = "poll_result"
          => /\ url # None
             /\ Val(url).path = "/e2e/result/"
             /\ Val(url).id = Val(session).session_id
    /\ url # None /\ Val(url) # RunUrl => pc \in { "poll_status", "poll_result" }

C15_Step ==
    /\ session # None => session' = session
    /\ C15_Carried'

\* C15: every getStatus and getResult request carries the session id
\* that submit returned, and that id never changes once it is set
C15_SessionIdCarried == [][C15_Step]_vars

\* the result of session s2 is being fetched after two status requests
C15_Witness ==
    /\ pc = "poll_result"
    /\ Val(session).session_id = "s2"
    /\ calls.get_status >= 2
    /\ attempt >= 1

\* after execute's with block the connection is closed; a request is in
\* flight only inside one of the three calls, one at a time, and only on
\* the open connection
C16_Closed ==
    /\ pc \in { "collect", "assert", "done", "exited" } /\ calls.post_run > 0
          => conn = "closed"
    /\ calls.post_run = 0 <=> conn = "none"
    /\ phase # "idle" <=> pc \in RequestPositions
    /\ phase # "idle" => conn = "open" /\ url # None

C16_Step ==
    /\ conn = "closed"
          => /\ conn' = "closed"
             /\ phase' = "idle"
             /\ url' = None
             /\ calls'.post_run = calls.post_run
             /\ calls'.get_status = calls.get_status
             /\ calls'.get_result = calls.get_result
    /\ C16_Closed'

\* C16: the connection opened for a run is closed on every way out of
\* execute, carries one request at a time, and none after it was closed
C16_ClosedOnEveryExit == [][C16_Step]_vars

\* an operator interrupt while submit was sleeping between two attempts
C16_Witness ==
    /\ pc = "exited"
    /\ exc = Some(Exc("KeyboardInterrupt", << >>))
    /\ conn = "closed"
    /\ session = None
    /\ calls.post_run = 1

Interrupted == exc # None /\ IsInstance(Val(exc), "KeyboardInterrupt")

C17_Outcome ==
    /\ INTERRUPT_EXIT \notin { ExitCode(TRUE), ExitCode(FALSE) }
    /\ Interrupted
          => /\ pc = "exited"
             /\ exit_code = Some(INTERRUPT_EXIT)
             /\ output = Some([success |-> FALSE,
                               message |-> << "Test interrupted by user" >>])
    /\ pc = "exited" /\ ~Interrupted
          => /\ exit_code = Some(ExitCode(Val(output).success))
             /\ Val(output).message # << "Test interrupted by user" >>

C17_Step ==
    /\ Interrupted' /\ ~Interrupted
          => result'.error = result.error /\ result'.all_passed = result.all_passed
    /\ C17_Outcome'

\* C17: an operator interrupt at any stage is not recorded as a failure
\* by execute's handlers; main ends with 'Test interrupted by user' and
\* exit status 130, which an ordinary failure or a success never give
C17_InterruptOutcome == [][C17_Step]_vars

\* an operator interrupt while the run was polling
C17_Witness ==
    /\ Interrupted
    /\ pc = "exited"
    /\ session # None
    /\ calls.get_status >= 1
    /\ fetched = None

\* the fields of the ExecutionResult that the stages store
Stored(res) ==
    << res.scenario_name, res.platform, res.logs, res.assertion_report,
       res.all_passed >>

C18_Kept ==
    /\ pc \notin { "init", "exited" } \/ result # NoResult
          => /\ result.scenario_name = self.scenario.app
             /\ result.platform = self.scenario.platform
    /\ pc \in { "assert", "done" } /\ http_result # None
          => result.logs = Val(http_result).logs

C18_Step ==
    /\ pc' = "done" /\ exc' # None /\ exc = None
          => Stored(result') = Stored(result)
    /\ C18_Kept'

\* C18: a failing stage changes nothing that earlier stages stored on the
\* result: the collected logs survive a failed evaluation, scenario name
\* and platform are those of the scenario throughout
C18_EarlierStagesKept == [][C18_Step]_vars

\* evaluation failed after logs had been collected
C18_Witness ==
    /\ pc = "done"
    /\ exc # None
    /\ Val(exc).type = "TypeError"
    /\ result.error # None
    /\ result.logs # << >>
    /\ result.logs = Val(http_result).logs

(* ------------------------------------------------------------------ *)
(* The backoff schedule (DelaySpec).                                    *)
(* ------------------------------------------------------------------ *)
\* initialDelay * backoffFactor^a, by repeated multiplication
RECURSIVE Scaled(_, _)
Scaled(p, a) ==
    IF a = 0 THEN p.initial_delay ELSE RMul(Scaled(p, a - 1), p.backoff_factor)

\* min(initialDelay * backoffFactor^a, maxDelay)
CappedDelay(p, a) ==
    IF RLe(p.max_delay, Scaled(p, a)) THEN p.max_delay ELSE Scaled(p, a)

\* delay(a) as get_delay returned it, for every a asked so far
DelayIsFormula ==
    \A k \in DOMAIN schedule.delays :
       schedule.delays[k] = CappedDelay(schedule.policy, k - 1)

NonDecreasing ==
    \A k \in DOMAIN schedule.delays :
       k > 1 => RLe(schedule.delays[k - 1], schedule.delays[k])

\* a policy whose delay does not shrink: no negative initial delay, a
\* backoff factor of at least 1
GrowingPolicy(p) ==
    /\ RLe(Frac(0, 1), p.initial_delay)
    /\ RLe(Frac(1, 1), p.backoff_factor)

\* C19 as stated: for every policy, get_delay(a) is
\* min(initialDelay * backoffFactor^a, maxDelay) and never decreases
C19_DelayAsStated == DelayIsFormula /\ NonDecreasing

\* C19, amended: get_delay(a) is min(initialDelay * backoffFactor^a,
\* maxDelay) for every policy; it never decreases for the policies with
\* initialDelay >= 0 and backoffFactor >= 1
C19_Delay ==
    /\ DelayIsFormula
    /\ GrowingPolicy(schedule.policy) => NonDecreasing

\* the aggressive preset, asked up to the attempt where the cap applies
C19_Witness ==
    /\ schedule.policy = aggressive_retry_policy
    /\ Len(schedule.delays) > MaxAttemptArg
    /\ schedule.delays[1] = Frac(1, 2)
    /\ schedule.delays[2] = Frac(3, 4)
    /\ GrowingPolicy(schedule.policy)

(* ------------------------------------------------------------------ *)
(* The timeout budget (BudgetSpec).                                     *)
(* ------------------------------------------------------------------ *)
\* C20: every sleep of execute_with_retry is at most the budget that
\* remained when it started, and the call (the attempts of the operation
\* plus the sleeps) never runs past start + timeout
C20_NeverOverruns ==
    /\ \A k \in DOMAIN th.sleeps :
          /\ th.sleeps[k].wait_time <= th.sleeps[k].remaining
          /\ th.sleeps[k].wait_time <= th.sleeps[k].delay
    /\ th._start_time # None => th.now <= Val(th._start_time) + th.timeout

WellFormed(dg) ==
    /\ dg.kind = "object"
    /\ dg.app # None /\ Val(dg.app) # << >>
    /\ dg.port.t = "int"

\* the filters of the call pass on equality
PassesFilters(dg) ==
    /\ ls.app_filter # None => dg.app = ls.app_filter
    /\ (ls.mode = "listen" /\ ls.platform_filter # None)
          => dg.platform = ls.platform_filter

Matching(i) ==
    WellFormed(ls.arrivals[i].dg) /\ PassesFilters(ls.arrivals[i].dg)

\* the endpoint of an arrival: the payload's fields and the sender
EndpointOf(a) ==
    [app |-> Val(a.dg.app), host |-> a.host, port |-> a.dg.port.v,
     platform |-> a.dg.platform, version |-> a.dg.version]

\* C22: listen returns the endpoint of the first arrival that is
\* well-formed and passes the filters; when it ends without such an
\* arrival it has raised TimeoutError and returned nothing
C22_FirstMatchOrTimeout ==
    (ls.mode = "listen" /\ ls.phase \in { "returned", "raised" })
       => LET n == Len(ls.arrivals)
              hits == { i \in 1..n : Matching(i) }
          IN IF hits # {}
             THEN /\ ls.phase = "returned"
                  /\ \A i \in hits : i = n
                  /\ ls.result = Some(EndpointOf(ls.arrivals[n]))
             ELSE /\ ls.phase = "raised"
                  /\ ls.result = None
                  /\ Val(ls.raised).type = "TimeoutError"

\* a payload that is not a JSON object, or lacks app, or whose port is
\* not an integer
Malformed(dg) ==
    \/ dg.kind # "object"
    \/ dg.app = None
    \/ dg.port.t # "int"

C23_Step ==
    (/\ ls.phase = "loop"
     /\ Len(ls'.arrivals) = Len(ls.arrivals) + 1
     /\ Malformed(ls'.arrivals[Len(ls'.arrivals)].dg))
       => /\ ls'.phase = "loop"
          /\ ls'.result = None
          /\ ls'.raised = None
          /\ ls'.discovered = ls.discovered

\* C23: the step that receives a malformed datagram yields no endpoint
\* (nothing returned, nothing added to discovered) and leaves listen or
\* listen_all in its loop, ready to receive the next datagram
C23_MalformedSkipped == [][C23_Step]_vars

\* C24: the list listen_all returns holds no two endpoints with the same
\* host and port, and each endpoint in it is the one of the first
\* accepted arrival with that host and port
C24_FirstSeenWins ==
    (ls.mode = "listen_all" /\ ls.phase = "returned")
       => LET res == Val(ls.result)
              n == Len(ls.arrivals)
              SamePair(i, j) ==
                  /\ ls.arrivals[i].host = ls.arrivals[j].host
                  /\ ls.arrivals[i].dg.port.v = ls.arrivals[j].dg.port.v
          IN /\ \A k, m \in 1..Len(res) :
                   (res[k].host = res[m].host /\ res[k].port = res[m].port) => k = m
             /\ \A k \in 1..Len(res) :
                   \E i \in 1..n :
                      /\ Matching(i)
                      /\ res[k] = EndpointOf(ls.arrivals[i])
                      /\ \A j \in 1..(i - 1) : Matching(j) => ~SamePair(i, j)

\* listen_all has returned after two accepted broadcasts of one host and
\* port with different payloads
C24_Witness ==
    /\ ls.mode = "listen_all"
    /\ ls.phase = "returned"
    /\ Len(Val(ls.result)) >= 1
    /\ \E i, j \in 1..Len(ls.arrivals) :
          /\ i < j
          /\ Matching(i) /\ Matching(j)
          /\ ls.arrivals[i].host = ls.arrivals[j].host
          /\ ls.arrivals[i].dg.port = ls.arrivals[j].dg.port
          /\ ls.arrivals[i].dg # ls.arrivals[j].dg

\* the endpoints the call has produced so far
Endpoints ==
    IF ls.mode = "listen"
    THEN IF ls.result = None THEN {} ELSE { Val(ls.result) }
    ELSE { ls.discovered[k] : k \in 1..Len(ls.discovered) }

\* C25: every endpoint discovery produces carries the sender address of
\* the datagram it was built from, whatever the payload says
C25_HostIsSender ==
    \A e \in Endpoints :
       \E i \in 1..Len(ls.arrivals) :
          /\ WellFormed(ls.arrivals[i].dg)
          /\ e.app = Val(ls.arrivals[i].dg.app)
          /\ e.port = ls.arrivals[i].dg.port.v
          /\ e.platform = ls.arrivals[i].dg.platform
          /\ e.host = ls.arrivals[i].host

\* an endpoint was built from a payload that claims a host of its own
C25_Witness ==
    \E e \in Endpoints :
       \E i \in 1..Len(ls.arrivals) :
          /\ "host" \in DOMAIN ls.arrivals[i].dg
          /\ ls.arrivals[i].dg.host # ls.arrivals[i].host
          /\ e.port = ls.arrivals[i].dg.port.v
          /\ ls.phase = "returned"

\* C26: every endpoint listen or listen_all gives has a port above 0
C26_PortPositive ==
    ls.phase = "returned" => \A e \in Endpoints : e.port > 0

ExactAt(name) ==
    { k \in 1..Len(ev.captured) : ev.captured[k].name = name }

ContainingAt(name) ==
    { k \in 1..Len(ev.captured) :
         /\ ev.captured[k].name # IntName
         /\ IsSubstr(name, ev.captured[k].name) }

First(S) == CHOOSE k \in S : \A m \in S : k <= m

\* C28: the image handed to the oracle for an assertion is that of an
\* artifact with exactly the assertion's name when there is one, and
\* otherwise that of the first captured artifact whose name contains it
C28_ArtifactUsed ==
    ev.phase = "returned"
       => \A i \in 1..Len(ev.assertions) :
             ev.calls[i] # None
                => LET name == ev.assertions[i].name
                       image == Val(ev.calls[i]).image
                   IN IF ExactAt(name) # {}
                      THEN \E k \in ExactAt(name) : ev.captured[k].data = image
                      ELSE /\ ContainingAt(name) # {}
                           /\ ev.captured[First(ContainingAt(name))].data = image

\* C29: evaluate raises nothing; the oracle is called for an assertion
\* only if it is a screenshot assertion, an artifact matches and an
\* oracle is configured; every other assertion gets a failing result
\* without a call, with the message of the first condition that fails
C29_DegradesWithoutError ==
    ev.phase \in { "returned", "raised" }
       => /\ ev.phase = "returned"
          /\ \A i \in 1..Len(ev.assertions) :
                LET a == ev.assertions[i]
                    r == Val(ev.report)[i]
                    matches == ExactAt(a.name) \cup ContainingAt(a.name) # {}
                    callable == a.type = "screenshot" /\ matches
                                   /\ ev.gemini_validator
                IN /\ ev.calls[i] # None => callable
                   /\ ~callable
                         => /\ ev.calls[i] = None
                            /\ r.vlm_result = None
                            /\ ~r.passed
                            /\ r.details.text =
                                  (IF a.type # "screenshot"
                                   THEN "Unsupported assertion type: "
                                   ELSE IF ~matches
                                   THEN "Screenshot not found in results."
                                   ELSE "No VLM validator configured. Cannot validate screenshots.")

C31_OracleFailureDegrades ==
    /\ (pc = "done" /\ result.assertion_report # None)
          => LET rs == Val(result.assertion_report)
             IN /\ result.error = None
                /\ exc = None
                /\ Len(rs) = Len(self.scenario.assertions)
                /\ \A i \in 1..Len(rs) :
                      /\ rs[i].assertion = self.scenario.assertions[i]
                      /\ (/\ rs[i].vlm_result # None
                          /\ Val(rs[i].vlm_result).reason = "VLM validation error")
                            => ~rs[i].passed
                      /\ (rs[i].assertion.type = "screenshot" /\ ~self.gemini_validator)
                            => ~rs[i].passed /\ rs[i].vlm_result = None
    /\ (exc # None /\ Val(exc).type = "TypeError")
          => /\ http_result # None
             /\ \E k \in 1..Len(Val(http_result).screenshots) :
                   Val(http_result).screenshots[k].name = IntName

\* the oracle call failed for the first assertion, the second one was
\* still evaluated and passed, and the run has no error
C31_Witness ==
    /\ pc = "done"
    /\ result.error = None
    /\ result.assertion_report # None
    /\ Len(Val(result.assertion_report)) = 2
    /\ Val(result.assertion_report)[1].vlm_result # None
    /\ Val(Val(result.assertion_report)[1].vlm_result).reason = "VLM validation error"
    /\ Val(result.assertion_report)[2].passed

\* the number of results whose passed is b, counted one by one
RECURSIVE Tally(_, _)
Tally(rs, b) ==
    IF rs = << >> THEN 0
    ELSE (IF Head(rs).passed = b THEN 1 ELSE 0) + Tally(Tail(rs), b)

\* C32: all_passed of a report holds exactly when none of its results
\* failed (so for the empty report), and total_count = passed_count +
\* failed_count = the number of results
C32_ReportCounts ==
    ev.phase = "returned"
       => LET rs == Val(ev.report)
              sm == Val(ev.summary)
          IN /\ sm.all_passed <=> Tally(rs, FALSE) = 0
             /\ rs = << >> => sm.all_passed
             /\ sm.passed_count = Tally(rs, TRUE)
             /\ sm.failed_count = Tally(rs, FALSE)
             /\ sm.total_count = sm.passed_count + sm.failed_count
             /\ sm.total_count = Len(rs)

\* a report with one passing and one failing result
C32_Witness ==
    /\ ev.phase = "returned"
    /\ Len(Val(ev.report)) = 2
    /\ Val(ev.summary).passed_count = 1
    /\ Val(ev.summary).failed_count = 1
    /\ ~Val(ev.summary).all_passed

\* C33: no call of health_check raises; a call whose request failed on
\* the network returns false, and a call returns true exactly when a
\* response with a status below 500 was received
C33_HealthNeverRaises ==
    \A i \in 1..Len(hc) :
       /\ hc[i].raised = None
       /\ hc[i].ended.kind # "response" => hc[i].returned = Some(FALSE)
       /\ hc[i].returned = Some(TRUE)
             <=> (hc[i].ended.kind = "response" /\ hc[i].ended.status_code <= 499)

(* ------------------------------------------------------------------ *)
(* The poll loop: its pace and its progress callback.                   *)
(* ------------------------------------------------------------------ *)
C34_Step ==
    /\ calls'.poll_sleep # calls.poll_sleep
          => /\ calls'.poll_sleep = calls.poll_sleep + 1
             /\ now' = now + self.config.poll_interval
             /\ calls.poll_sleep + 1 = calls.get_status
    /\ calls'.get_status # calls.get_status
          => /\ calls'.get_status = calls.get_status + 1
             /\ calls.poll_sleep = calls.get_status
             /\ now' = now

\* C34: every poll sleep lasts the whole poll interval, whatever the
\* status request before it took, and every status fetch but the first
\* starts right after the one sleep that followed the previous fetch, so
\* at least the poll interval lies between two consecutive fetches
C34_FullIntervalBetweenFetches == [][C34_Step]_vars

\* a second status fetch after a sleep, with requests that take time
C34_Witness ==
    /\ calls.get_status >= 2
    /\ calls.poll_sleep >= 1
    /\ latency > 0
    /\ self.config.poll_interval > latency

\* the number of status requests among the requests of a call
RECURSIVE StatusFetches(_)
StatusFetches(requests) ==
    IF requests = << >> THEN 0
    ELSE (IF Head(requests) = "status" THEN 1 ELSE 0) + StatusFetches(Tail(requests))

\* C35: the callback has been invoked once per fetched status, and the
\* call with the callback has made the same requests and reached the
\* same outcome as the call without it
C35_CallbackIsSideEffectOnly ==
    pl.callback # "none"
       => /\ pl.hooked.invoked = StatusFetches(pl.hooked.requests)
          /\ pl.hooked.requests = pl.plain.requests
          /\ pl.hooked.phase = pl.plain.phase
          /\ pl.hooked.outcome = pl.plain.outcome

(* ------------------------------------------------------------------ *)
(* TimeoutHandler and RetryPolicy.                                      *)
(* ------------------------------------------------------------------ *)
\* the RetryPolicy with the fields of a RetryConfig
PolicyOf(c) ==
    RetryPolicy(c.max_retries, Frac(c.initial_delay, 1), Frac(c.backoff_factor, 1),
                Frac(c.max_delay, 1))

\* C36: the delay execute_with_retry has before its k-th retry (from 0),
\* before it is clamped to the remaining budget, is get_delay(k) of the
\* RetryPolicy with the same four fields
C36_SameSchedule ==
    \A k \in 1..Len(th.sleeps) :
       Frac(th.sleeps[k].delay, 1)
          = RetryPolicy_get_delay(PolicyOf(th.retry_config), k - 1)

(* ------------------------------------------------------------------ *)
(* The two verdicts.                                                    *)
(* ------------------------------------------------------------------ *)
\* execute returned its result to main: it raised nothing, or what was
\* raised was caught by its own handlers
ExecuteReturned == exc = None \/ CaughtByExecute(Val(exc))

\* C37: when execute returned and main printed to_flow_json, the "success"
\* of the flow output (and with it the exit status) equals
\* ExecutionResult.all_passed, and it is false whenever the result has an
\* error
C37_VerdictsAgree ==
    (pc = "exited" /\ ExecuteReturned)
       => /\ output # None
          /\ Val(output).success = result.all_passed
          /\ result.error # None => ~Val(output).success
          /\ exit_code = Some(ExitCode(result.all_passed))

\* a run that failed before the evaluation: the result has an error and no
\* report, and the reporter falls back on the error
C37_Witness ==
    /\ pc = "exited"
    /\ ExecuteReturned
    /\ calls.evaluate = 0
    /\ result.error # None
    /\ result.assertion_report = None
    /\ ~Val(output).success

(* ------------------------------------------------------------------ *)
(* The sockets of a listener.                                           *)
(* ------------------------------------------------------------------ *)
\* the call has ended, by a return or by an exception
ListenEnded == ls.phase \in { "returned", "raised", "bind_failed" }

\* the sockets made by the call that are open
OpenSockets == { f \in { "_sock", "unbound" } : ls[f] = "open" }

\* C38: when listen or listen_all has ended (endpoint or list returned,
\* timeout, bind failure, error while receiving) no socket made by the
\* call is open and self._sock holds none; at no time is more than one
\* socket of the listener open
C38_NoSocketLeft ==
    /\ ListenEnded => OpenSockets = { }
    /\ Cardinality(OpenSockets) <= 1

(* ------------------------------------------------------------------ *)
(* The attempts of execute_with_retry.                                  *)
(* ------------------------------------------------------------------ *)
\* the runs of the operation that failed with a retry still allowed
RetryDue == { i \in 1..Len(th.ran) : ~th.ran[i] /\ i <= th.retry_config.max_retries }

\* C39: execute_with_retry starts no attempt once the budget has expired,
\* runs the operation at most max_retries + 1 times, and calls on_retry
\* once after each failed attempt that is not the last allowed one, with
\* the number of the coming retry counted from 1, before the backoff sleep
C39_AttemptsAndCallbacks ==
    /\ th.phase = "operation" => th.now - Val(th._start_time) < th.timeout
    /\ Len(th.ran) <= th.retry_config.max_retries + 1
    /\ Len(th.retries) = IF th.on_retry THEN Cardinality(RetryDue) ELSE 0
    /\ \A j \in 1..Len(th.retries) :
          /\ j \in RetryDue
          /\ th.retries[j].number = j
          /\ th.retries[j].error = OperationError(j - 1)
          /\ th.retries[j].sleeps = j - 1
    /\ th.on_retry => Len(th.sleeps) \in { Len(th.retries) - 1, Len(th.retries) }

\* two attempts failed, on_retry was called before each backoff sleep, and
\* the budget expired before a third attempt
C39_Witness ==
    /\ th.phase = "raised"
    /\ th.on_retry
    /\ Len(th.ran) = 2
    /\ Len(th.retries) = 2
    /\ Len(th.sleeps) = 2
    /\ th.retry_config.max_retries > 2

(* ------------------------------------------------------------------ *)
(* The ends of the retry wrapper.                                       *)
(* ------------------------------------------------------------------ *)
\* C40: a call of the wrapper that has ended made at least one attempt
\* and either returned a 2xx response or raised the failure of one of its
\* attempts; the statements after the loop are never reached
C40_NoFallThrough ==
    /\ rw.phase \in { "returned", "raised" } => Len(rw.outcomes) >= 1
    /\ rw.phase = "returned" => rw.response = Some("2xx")
    /\ rw.phase = "raised"
          => \E i \in DOMAIN rw.outcomes :
                rw.raised = Some(Failure(rw.outcomes[i], i - 1))
    /\ ~rw.fell_through

====
